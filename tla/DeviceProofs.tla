---------------------------- MODULE DeviceProofs ---------------------------
(***************************************************************************)
(* Theorems about the two devices of the board: about Timer, for any width *)
(* of the registers, any interval that is less than half their range and   *)
(* any run of the count; about the conversions of Utilities, for every     *)
(* number they take; and about Console, for any tasks, texts, formats and  *)
(* FIFO.  What they share is the arithmetic of division.                   *)
(***************************************************************************)
EXTENDS Timer, Console, SequenceTheorems, WellFoundedInduction, TLAPS

-----------------------------------------------------------------------------
(* The inductive invariant.                                                *)

Booted == pc \notin Booting

\* The next tick is the boot time plus whole intervals, and is what the
\* comparator is set to; the kernel halts only behind it.
ClockSet ==
  /\ Booted => /\ next_tick_time = boot_time + (tick_count + 1) * INTERVAL
               /\ C = next_tick_time % W
  /\ pc = "halted" => next_tick_time <= now

\* The high half a read has found is not ahead of the count.
ReadsBehind ==
  pc \in {"boot_lo", "irq_lo", "enter_lo", "exit_lo"} => hi <= CHI

\* How far ahead of the count the ticks may be: a match left over from before
\* boot is one tick too many.
Ahead == IF stale THEN INTERVAL ELSE 0

\* Where the count is, relative to the next tick.
Settled == Running \/ pc \in {"irq_hi", "irq_lo"}
TickInTime ==
  Booted /\ WholeReads =>
    /\ pc \in {"irq_clear", "irq_set"} => next_tick_time <= now + Ahead
    /\ pc = "irq_set" /\ match => next_tick_time + INTERVAL <= now + Ahead
    /\ Settled => next_tick_time <= now + INTERVAL + Ahead
    /\ Settled /\ match => next_tick_time <= now + Ahead
    /\ Running /\ ~match => now < next_tick_time

\* The busy time that the idle task has not added up yet: none while it sleeps,
\* otherwise the time since it last woke, or since boot.
Since == IF idle_ready THEN last_exit_time ELSE boot_time
Outstanding == IF pc \in Sleeping THEN 0 ELSE now - Since
BusyError == (execution_time + Outstanding) - busy
BusyKept ==
  /\ ~idle_ready => /\ execution_time = 0
                    /\ pc \notin Sleeping \cup {"enter_hi", "enter_lo", "unmask"}
  /\ pc \in Booting => busy = 0 /\ ~idle_ready
  /\ Booted => /\ BusyError % W = 0
               /\ torn \cap {"boot", "idle"} = {} => BusyError = 0

TimerInvariant == TypeOK /\ ClockSet /\ ReadsBehind /\ TickInTime /\ BusyKept

-----------------------------------------------------------------------------
(* Division with remainder.                                                *)

LEMMA DivMod ==
  ASSUME NEW n \in Nat \ {0}, NEW a \in Int
  PROVE  /\ a \div n \in Int /\ a % n \in 0 .. n - 1
         /\ a = (a \div n) * n + (a % n)
<1>1. a \div n \in Int /\ a % n \in 0 .. n - 1
  OBVIOUS
<1>2. a = n * (a \div n) + (a % n)
  OBVIOUS
<1>3. \A q \in Int : n * q = q * n
  OBVIOUS
<1>4. QED
  BY <1>1, <1>2, <1>3

\* A product is at least a factor, with its sign.
LEMMA Multiples ==
  ASSUME NEW n \in Nat \ {0}, NEW d \in Int
  PROVE  /\ d * n \in Int
         /\ d >= 1 => d * n >= n
         /\ d <= -1 => d * n <= -n
         /\ d = 0 => d * n = 0
OBVIOUS

\* Quotient and remainder are unique.
LEMMA DivModUnique ==
  ASSUME NEW n \in Nat \ {0}, NEW q \in Int, NEW r \in 0 .. n - 1, NEW a \in Int, a = q * n + r
  PROVE  a \div n = q /\ a % n = r
<1>1. PICK p \in Int : p = a \div n
  BY DivMod
<1>2. PICK s \in 0 .. n - 1 : s = a % n
  BY DivMod
<1>3. a = p * n + s
  BY <1>1, <1>2, DivMod
<1>4. (q - p) * n = s - r
  <2>1. (q - p) * n = q * n - p * n
    OBVIOUS
  <2>2. q * n \in Int /\ p * n \in Int
    OBVIOUS
  <2>3. QED
    BY <1>3, <2>1, <2>2
<1>5. q - p = 0
  <2>1. PICK d \in Int : d = q - p
    OBVIOUS
  <2>2. d * n = s - r
    BY <1>4, <2>1
  <2>3. (d >= 1 => d * n >= n) /\ (d <= -1 => d * n <= -n)
    BY Multiples
  <2>4. ~(d >= 1) /\ ~(d <= -1)
    BY <2>2, <2>3
  <2>5. QED
    BY <2>1, <2>4
<1>6. QED
  BY <1>1, <1>2, <1>4, <1>5

\* Multiples of n do not matter modulo n.
LEMMA ModShift ==
  ASSUME NEW n \in Nat \ {0}, NEW a \in Int, NEW z \in Int
  PROVE  (a + z * n) % n = a % n
<1>1. PICK q \in Int, r \in 0 .. n - 1 : q = a \div n /\ r = a % n /\ a = q * n + r
  BY DivMod
<1>2. (q + z) * n = q * n + z * n /\ q * n \in Int /\ z * n \in Int
  OBVIOUS
<1>3. a + z * n = (q + z) * n + r
  BY <1>1, <1>2
<1>4. PICK p \in Int, b \in Int : p = q + z /\ b = a + z * n
  BY <1>2
<1>5. b = p * n + r
  BY <1>3, <1>4
<1>6. b % n = r
  BY <1>5, DivModUnique
<1>7. QED
  BY <1>1, <1>4, <1>6

\* Numbers that are equal modulo n are n apart.
LEMMA ModGap ==
  ASSUME NEW n \in Nat \ {0}, NEW a \in Int, NEW b \in Int, a % n = b % n, a > b
  PROVE  a >= b + n
<1>1. PICK p \in Int, q \in Int, r \in 0 .. n - 1 : a = p * n + r /\ b = q * n + r
  <2>1. PICK p \in Int : p = a \div n
    BY DivMod
  <2>2. PICK q \in Int : q = b \div n
    BY DivMod
  <2>3. PICK r \in 0 .. n - 1 : r = a % n
    BY DivMod
  <2>4. a = p * n + r
    BY <2>1, <2>3, DivMod
  <2>5. b = q * n + r
    BY <2>2, <2>3, DivMod
  <2>6. QED
    BY <2>4, <2>5, Zenon
<1>2. PICK d \in Int : d = p - q
  OBVIOUS
<1>3. d * n = p * n - q * n /\ p * n \in Int /\ q * n \in Int
  BY <1>2
<1>4. d * n = a - b
  BY <1>1, <1>3
<1>5. d >= 1
  BY <1>4, Multiples
<1>6. QED
  BY <1>4, <1>5, Multiples

\* The quotient does not fall when the number grows.
LEMMA DivMonotonic ==
  ASSUME NEW n \in Nat \ {0}, NEW a \in Int
  PROVE  a \div n <= (a + 1) \div n
<1>1. PICK b \in Int : b = a + 1
  OBVIOUS
<1>2. PICK p \in Int, q \in Int, r \in 0 .. n - 1, s \in 0 .. n - 1 :
        /\ p = a \div n /\ q = b \div n /\ a = p * n + r /\ b = q * n + s
  <2>1. PICK p \in Int, r \in 0 .. n - 1 : p = a \div n /\ a = p * n + r
    BY DivMod
  <2>2. PICK q \in Int, s \in 0 .. n - 1 : q = b \div n /\ b = q * n + s
    BY DivMod
  <2>3. QED
    BY <2>1, <2>2, Zenon
<1>3. PICK d \in Int : d = p - q
  OBVIOUS
<1>4. d * n = p * n - q * n /\ p * n \in Int /\ q * n \in Int
  BY <1>3
<1>5. d * n = (a - b) + (s - r)
  BY <1>2, <1>4
<1>6. d * n < n
  BY <1>1, <1>5
<1>7. ~(d >= 1)
  BY <1>6, Multiples
<1>8. QED
  BY <1>1, <1>2, <1>3, <1>7

-----------------------------------------------------------------------------
(* Reading the count, and type correctness.                                *)

LEMMA Constants ==
  /\ W \in Nat \ {0} /\ INTERVAL \in Nat \ {0} /\ REPORT_PERIOD \in Nat \ {0} /\ MAXTIME \in Nat
  /\ 2 * INTERVAL < W
BY TimerAssumption

\* A whole read returns the count, a torn one falls behind by multiples of W.
LEMMA Reading ==
  ASSUME TypeOK
  PROVE  /\ now \in Nat /\ CHI \in Nat /\ CLO \in 0 .. W - 1 /\ hi \in Nat
         /\ sys_timer_full_count \in Int
         /\ sys_timer_full_count = now + (hi - CHI) * W
         /\ hi = CHI => sys_timer_full_count = now
         /\ hi <= CHI => sys_timer_full_count <= now
<1>1. PICK t \in Nat, h \in Nat : t = now /\ h = hi
  BY Constants DEF TypeOK
<1>2. PICK q \in Int, r \in 0 .. W - 1 : q = CHI /\ r = CLO /\ t = q * W + r
  BY <1>1, Constants, DivMod DEF CHI, CLO
<1>3. q \in Nat
  <2>1. SUFFICES ASSUME q <= -1 PROVE FALSE
    BY <1>2
  <2>2. q * W <= -W /\ q * W \in Int
    BY <2>1, Constants, Multiples
  <2>3. QED
    BY <1>2, <2>2, Constants
<1>4. sys_timer_full_count = h * W + r
  BY <1>1, <1>2 DEF sys_timer_full_count
<1>5. PICK d \in Int : d = h - q
  OBVIOUS
<1>6. d * W = h * W - q * W /\ h * W \in Int /\ q * W \in Int /\ d * W \in Int
  BY <1>5, Constants
<1>7. sys_timer_full_count = t + d * W
  BY <1>2, <1>4, <1>6, Constants
<1>8. (d = 0 => d * W = 0) /\ (d <= -1 => d * W <= -W)
  BY Constants, Multiples
<1>9. (d = 0 => t + d * W = t) /\ (d <= 0 => t + d * W <= t) /\ t + d * W \in Int
  BY <1>6, <1>8, Constants
<1>10. /\ hi = CHI => d = 0
       /\ hi <= CHI => d <= 0
  BY <1>1, <1>2, <1>5
<1>11. QED
  BY <1>1, <1>2, <1>3, <1>5, <1>7, <1>9, <1>10

LEMMA InitTimer == Init => TimerInvariant
<1> SUFFICES ASSUME Init PROVE TimerInvariant
  OBVIOUS
<1>1. TypeOK
  <2>1. /\ 0 \in 0 .. MAXTIME /\ 0 \in 0 .. W - 1 /\ 0 \in 0 .. REPORT_PERIOD - 1
        /\ 0 \in Int /\ 0 \in Nat
    BY Constants
  <2>2. pc \in Control
    BY DEF Init, Control, Booting
  <2>3. QED
    BY <2>1, <2>2, Zenon DEF Init, TypeOK
<1>2. QED
  BY <1>1 DEF Init, TimerInvariant, ClockSet, ReadsBehind, TickInTime, BusyKept, Booted, Booting, Sleeping

LEMMA NextTyped == TypeOK /\ [Next]_vars => TypeOK'
<1> SUFFICES ASSUME TypeOK, [Next]_vars PROVE TypeOK'
  OBVIOUS
<1>1. /\ sys_timer_full_count \in Int /\ CHI \in Nat /\ now \in Nat
      /\ \A a \in Int : a % W \in 0 .. W - 1
      /\ \A a \in Int : a % REPORT_PERIOD \in 0 .. REPORT_PERIOD - 1
  BY Reading, Constants, DivMod
<1>2. ASSUME NEW k \in {"boot", "check", "idle"}, ReadLo(k)
      PROVE  torn' \subseteq {"boot", "check", "idle"} /\ hi' \in Nat
  BY <1>2 DEF ReadLo, TypeOK
<1>3. CASE UNCHANGED vars
  BY <1>3 DEF vars, hardware, clock, idleVars, TypeOK
<1>4. CASE Count
  <2>1. now' \in 0 .. MAXTIME
    BY <1>4, Constants DEF Count, TypeOK
  <2>2. match' \in BOOLEAN /\ busy' \in Nat
    BY <1>4 DEF Count, TypeOK
  <2>3. QED
    BY <1>4, <2>1, <2>2 DEF Count, clock, idleVars, TypeOK
<1>5. CASE FirstHalf
  <2>1. hi' \in Nat /\ pc' \in Control
    BY <1>1, <1>5 DEF FirstHalf, ReadHi, Control, Booting, Interrupt, Sleeping
  <2>2. QED
    BY <1>5, <2>1 DEF FirstHalf, hardware, clock, idleVars, TypeOK
<1>6. CASE sys_clock_init
  <2>1. /\ boot_time' \in Int /\ next_tick_time' \in Int /\ C' \in 0 .. W - 1 /\ tick_count' = 0
        /\ pc' \in Control /\ stale' \in BOOLEAN
    BY <1>1, <1>6, Constants DEF sys_clock_init, Control, TypeOK
  <2>2. torn' \subseteq {"boot", "check", "idle"} /\ hi' \in Nat
    BY <1>2, <1>6 DEF sys_clock_init
  <2>3. QED
    BY <1>6, <2>1, <2>2 DEF sys_clock_init, idleVars, TypeOK
<1>7. CASE sys_timer_clear_match
  BY <1>7 DEF sys_timer_clear_match, clock, idleVars, TypeOK, Control, Interrupt
<1>8. CASE sys_clock_notify_tick
  <2>1. /\ next_tick_time' \in Int /\ C' \in 0 .. W - 1 /\ tick_count' \in Nat /\ pc' \in Control
    BY <1>1, <1>8, Constants DEF sys_clock_notify_tick, NextTickTime, Control, Interrupt, TypeOK
  <2>2. QED
    BY <1>8, <2>1 DEF sys_clock_notify_tick, idleVars, TypeOK
<1>9. CASE sys_clock_check
  <2>1. torn' \subseteq {"boot", "check", "idle"} /\ hi' \in Nat
    BY <1>2, <1>9 DEF sys_clock_check
  <2>2. QED
    BY <1>9, <2>1 DEF sys_clock_check, hardware, clock, idleVars, TypeOK, Control
<1>10. CASE idle_after_enter
  <2>1. torn' \subseteq {"boot", "check", "idle"} /\ hi' \in Nat
    BY <1>2, <1>10 DEF idle_after_enter
  <2>2. execution_time' \in Int /\ idle_count' \in 0 .. REPORT_PERIOD - 1
    BY <1>1, <1>10, Constants DEF idle_after_enter, BusyPeriod, TypeOK
  <2>3. QED
    BY <1>10, <2>1, <2>2 DEF idle_after_enter, hardware, clock, TypeOK, Control, Sleeping
<1>11. CASE idle_before_exit
  <2>1. torn' \subseteq {"boot", "check", "idle"} /\ hi' \in Nat
    BY <1>2, <1>11 DEF idle_before_exit
  <2>2. QED
    BY <1>1, <1>11, <2>1 DEF idle_before_exit, hardware, clock, TypeOK, Control
<1>12. CASE idle_report \/ power_standby \/ el_enable_interrupt \/ Activate
  <2>1. CASE idle_report
    BY <2>1 DEF idle_report, hardware, clock, TypeOK, Control, Sleeping
  <2>2. CASE power_standby \/ el_enable_interrupt \/ Activate
    <3>1. pc' \in Control
      BY <2>2 DEF power_standby, el_enable_interrupt, Activate, Control, Sleeping
    <3>2. UNCHANGED <<hardware, clock, hi, idleVars, torn, stale, busy>>
      BY <2>2 DEF power_standby, el_enable_interrupt, Activate
    <3>3. QED
      BY <3>1, <3>2 DEF hardware, clock, idleVars, TypeOK
  <2>3. QED
    BY <1>12, <2>1, <2>2
<1>13. CASE TakeInterrupt \/ SystemCall \/ idle
  BY <1>13 DEF TakeInterrupt, SystemCall, idle, hardware, clock, idleVars, TypeOK, Control, Interrupt
<1>14. CASE idle_setup
  BY <1>14, Constants DEF idle_setup, hardware, clock, TypeOK
<1>15. QED
  BY <1>3, <1>4, <1>5, <1>6, <1>7, <1>8, <1>9, <1>10, <1>11, <1>12, <1>13, <1>14 DEF Next, Masked

-----------------------------------------------------------------------------
(* TimerInvariant is inductive.                                            *)

\* The steps of the processor that only move it on.
Moves == TakeInterrupt \/ SystemCall \/ idle \/ Activate \/ power_standby \/ el_enable_interrupt

LEMMA SetKept ==
  ASSUME TimerInvariant, TypeOK', [Next]_vars
  PROVE  ClockSet'
<1>0. /\ Booted => /\ next_tick_time = boot_time + (tick_count + 1) * INTERVAL
                   /\ C = next_tick_time % W
      /\ pc = "halted" => next_tick_time <= now
      /\ TypeOK
  BY DEF TimerInvariant, ClockSet
<1>1. ASSUME UNCHANGED <<now, C, clock>>, Booted' => Booted, pc' = "halted" => pc = "halted"
      PROVE  ClockSet'
  BY <1>0, <1>1 DEF ClockSet, clock
<1>2. CASE UNCHANGED vars
  BY <1>1, <1>2 DEF vars, hardware, Booted
<1>3. CASE Count
  <2>1. now' = now + 1 /\ UNCHANGED <<C, clock, pc>> /\ now \in Int /\ next_tick_time \in Int
    BY <1>0, <1>3, Reading DEF Count, TypeOK
  <2>2. pc = "halted" => next_tick_time <= now + 1
    BY <1>0, <2>1
  <2>3. QED
    BY <1>0, <2>1, <2>2 DEF ClockSet, clock, Booted
<1>4. CASE FirstHalf
  BY <1>1, <1>4 DEF FirstHalf, ReadHi, hardware, Booted, Booting
<1>5. CASE sys_clock_init
  <2>1. /\ next_tick_time' = boot_time' + INTERVAL /\ tick_count' = 0 /\ pc' = "user"
        /\ C' = next_tick_time' % W
    BY <1>5 DEF sys_clock_init
  <2>2. (0 + 1) * INTERVAL = INTERVAL
    BY Constants
  <2>3. QED
    BY <2>1, <2>2 DEF ClockSet
<1>6. CASE sys_clock_notify_tick
  <2>1. /\ next_tick_time' = next_tick_time + INTERVAL /\ tick_count' = tick_count + 1
        /\ pc' = "irq_hi" /\ boot_time' = boot_time /\ Booted /\ C' = next_tick_time' % W
    BY <1>6 DEF sys_clock_notify_tick, NextTickTime, Booted, Booting
  <2>2. \A b \in Int, k \in Nat :
          (b + (k + 1) * INTERVAL) + INTERVAL = b + ((k + 1) + 1) * INTERVAL
    BY Constants
  <2>3. next_tick_time' = boot_time + ((tick_count + 1) + 1) * INTERVAL
    BY <1>0, <2>1, <2>2 DEF TypeOK
  <2>4. QED
    BY <2>1, <2>3 DEF ClockSet
<1>7. CASE sys_clock_check
  <2>1. UNCHANGED <<now, C, clock>> /\ Booted /\ pc = "irq_lo"
    BY <1>7 DEF sys_clock_check, hardware, Booted, Booting
  <2>2. pc' = "halted" => next_tick_time <= sys_timer_full_count
    BY <1>7 DEF sys_clock_check, TickMissed
  <2>3. sys_timer_full_count <= now /\ sys_timer_full_count \in Int /\ now \in Int /\ next_tick_time \in Int
    BY <1>0, <2>1, Reading DEF TimerInvariant, ReadsBehind, TypeOK
  <2>4. pc' = "halted" => next_tick_time <= now
    BY <2>2, <2>3
  <2>5. QED
    BY <1>0, <2>1, <2>4 DEF ClockSet, clock
<1>8. CASE Moves
  BY <1>1, <1>8 DEF Moves, TakeInterrupt, SystemCall, idle, Activate, power_standby,
     el_enable_interrupt, hardware, Booted, Booting
<1>9. CASE sys_timer_clear_match \/ idle_setup
  BY <1>1, <1>9 DEF sys_timer_clear_match, idle_setup, hardware, Booted, Booting
<1>10. CASE idle_after_enter \/ idle_report \/ idle_before_exit
  BY <1>1, <1>10 DEF idle_after_enter, idle_report, idle_before_exit, hardware, Booted, Booting
<1>11. QED
  BY <1>2, <1>3, <1>4, <1>5, <1>6, <1>7, <1>8, <1>9, <1>10 DEF Next, Masked, Moves

LEMMA ReadsKept ==
  ASSUME TimerInvariant, TypeOK', [Next]_vars
  PROVE  ReadsBehind'
<1>0. TypeOK /\ now \in Int /\ CHI \in Nat /\ hi \in Nat
  BY Reading DEF TimerInvariant
<1>1. CASE UNCHANGED vars
  BY <1>1 DEF vars, hardware, TimerInvariant, ReadsBehind, CHI
<1>2. CASE Count
  <2>1. now' = now + 1 /\ UNCHANGED <<hi, pc>>
    BY <1>2 DEF Count
  <2>2. now \div W <= (now + 1) \div W
    BY <1>0, Constants, DivMonotonic
  <2>3. CHI <= CHI' /\ CHI' \in Int
    <3>1. (now + 1) \div W \in Int
      BY <1>0, Constants, DivMod
    <3>2. QED
      BY <2>1, <2>2, <3>1 DEF CHI
  <2>4. QED
    BY <1>0, <2>1, <2>3 DEF TimerInvariant, ReadsBehind
<1>3. CASE FirstHalf
  <2>1. hi' = CHI /\ CHI' = CHI
    BY <1>3 DEF FirstHalf, ReadHi, hardware, CHI
  <2>2. QED
    BY <1>0, <2>1 DEF ReadsBehind
<1>4. CASE Moves
  BY <1>4 DEF Moves, TakeInterrupt, SystemCall, idle, Activate, power_standby,
     el_enable_interrupt, ReadsBehind
<1>5. CASE sys_clock_init \/ sys_timer_clear_match \/ sys_clock_notify_tick \/ sys_clock_check
  BY <1>5 DEF sys_clock_init, sys_timer_clear_match, sys_clock_notify_tick, sys_clock_check,
     ReadsBehind
<1>6. CASE idle_setup \/ idle_after_enter \/ idle_report \/ idle_before_exit
  BY <1>6 DEF idle_setup, idle_after_enter, idle_report, idle_before_exit, ReadsBehind
<1>7. QED
  BY <1>1, <1>2, <1>3, <1>4, <1>5, <1>6 DEF Next, Masked, Moves

\* A step after which the count stands to the next tick as before.
LEMMA TickSame ==
  ASSUME TimerInvariant, UNCHANGED <<now, match, next_tick_time, stale>>,
         WholeReads' => WholeReads, Booted' => Booted,
         \/ Running /\ Running'
         \/ pc \in {"irq_hi", "irq_lo"} /\ pc' \in {"irq_hi", "irq_lo"}
         \/ pc' = pc
         \/ pc' = "halted"
         \/ ~Booted'
  PROVE  TickInTime'
<1>1. Ahead' = Ahead
  BY DEF Ahead
<1>2. CASE ~Booted' \/ pc' = "halted"
  BY <1>2 DEF TickInTime, Settled, Running
<1>3. CASE pc' = pc
  BY <1>1, <1>3 DEF TimerInvariant, TickInTime, Settled, Running
<1>4. CASE Running /\ Running'
  <2>1. pc' \notin {"irq_clear", "irq_set"} /\ Settled
    BY <1>4 DEF Running, Interrupt, Settled
  <2>2. QED
    BY <1>1, <1>4, <2>1 DEF TimerInvariant, TickInTime, Settled
<1>5. CASE pc \in {"irq_hi", "irq_lo"} /\ pc' \in {"irq_hi", "irq_lo"}
  <2>1. Settled /\ Settled' /\ ~Running' /\ pc' \notin {"irq_clear", "irq_set"}
    BY <1>5 DEF Running, Interrupt, Settled
  <2>2. QED
    BY <1>1, <2>1 DEF TimerInvariant, TickInTime
<1>6. QED
  BY <1>2, <1>3, <1>4, <1>5

\* The count advances.  The comparator sees the next tick time when it comes,
\* not before, because that is less than W away.
LEMMA CountInTime ==
  ASSUME TimerInvariant, TypeOK', Count
  PROVE  TickInTime'
<1>1. /\ now' = now + 1 /\ match' = (match \/ now' % W = C)
      /\ UNCHANGED <<C, clock, pc, torn, stale>>
  BY DEF Count
<1>2. /\ Booted' = Booted /\ WholeReads' = WholeReads /\ Ahead' = Ahead /\ Settled' = Settled
      /\ Running' = Running /\ next_tick_time' = next_tick_time
  BY <1>1 DEF Booted, WholeReads, Ahead, Settled, Running, clock
<1>3. SUFFICES ASSUME Booted, WholeReads PROVE TickInTime'
  BY <1>2 DEF TickInTime
<1>4. PICK t \in Int, n \in Int, a \in {0, INTERVAL} : t = now /\ n = next_tick_time /\ a = Ahead
  BY Reading DEF TimerInvariant, TypeOK, Ahead
<1>5. C = n % W /\ W \in Nat \ {0} /\ INTERVAL \in Nat \ {0} /\ 2 * INTERVAL < W
  BY <1>3, <1>4, Constants DEF TimerInvariant, ClockSet
<1>6. match' => match \/ (t + 1) % W = n % W
  BY <1>1, <1>4, <1>5
<1>7. /\ pc \in {"irq_clear", "irq_set"} => n <= t + a
      /\ pc = "irq_set" /\ match => n + INTERVAL <= t + a
      /\ Settled => n <= (t + INTERVAL) + a
      /\ Settled /\ match => n <= t + a
      /\ Running /\ ~match => t < n
  <2>1. /\ pc \in {"irq_clear", "irq_set"} => n <= t + a
        /\ pc = "irq_set" /\ match => n + INTERVAL <= t + a
        /\ Settled => n <= t + INTERVAL + a
        /\ Settled /\ match => n <= t + a
        /\ Running /\ ~match => t < n
    BY <1>3, <1>4 DEF TimerInvariant, TickInTime
  <2>2. QED
    BY <1>4, <1>5, <2>1
<1>8. /\ (t + 1) % W = n % W /\ t + 1 > n => t + 1 >= n + W
      /\ (t + 1) % W = n % W /\ n > t + 1 => n >= (t + 1) + W
  <2>1. PICK u \in Int : u = t + 1
    OBVIOUS
  <2>2. /\ u % W = n % W /\ u > n => u >= n + W
        /\ u % W = n % W /\ n > u => n >= u + W
    BY <1>5, ModGap
  <2>3. QED
    BY <2>1, <2>2
<1>9. pc = "irq_set" /\ match' => n + INTERVAL <= (t + 1) + a
  <2>1. CASE match
    BY <1>4, <1>5, <1>7, <2>1
  <2>2. ASSUME pc = "irq_set", (t + 1) % W = n % W PROVE n + INTERVAL <= (t + 1) + a
    <3>1. n <= t + a
      BY <1>7, <2>2
    <3>2. CASE a = 0
      BY <1>5, <1>8, <2>2, <3>1, <3>2
    <3>3. CASE a = INTERVAL
      <4>1. ~(n > t + 1)
        BY <1>5, <1>8, <2>2, <3>1, <3>3
      <4>2. QED
        BY <1>5, <3>3, <4>1
    <3>4. QED
      BY <3>2, <3>3
  <2>3. QED
    BY <1>6, <2>1, <2>2
<1>10. Settled /\ match' => n <= (t + 1) + a
  <2>1. CASE match
    BY <1>4, <1>5, <1>7, <2>1
  <2>2. ASSUME Settled, (t + 1) % W = n % W PROVE n <= t + 1
    <3>1. n <= (t + INTERVAL) + a
      BY <1>7, <2>2
    <3>2. ~(n > t + 1)
      BY <1>5, <1>8, <2>2, <3>1
    <3>3. QED
      BY <3>2
  <2>3. QED
    BY <1>5, <1>6, <2>1, <2>2
<1>11. Running /\ ~match' => t + 1 < n
  <2>1. ASSUME Running, ~match' PROVE t < n /\ (t + 1) % W # n % W
    BY <1>1, <1>4, <1>5, <1>7, <2>1
  <2>2. ASSUME Running, ~match' PROVE t + 1 < n
    <3>1. t + 1 # n
      BY <2>1, <2>2
    <3>2. QED
      BY <2>1, <2>2, <3>1
  <2>3. QED
    BY <2>2
<1>12. /\ pc \in {"irq_clear", "irq_set"} => n <= (t + 1) + a
       /\ Settled => n <= (t + 1) + INTERVAL + a
  BY <1>5, <1>7
<1>13. now' = t + 1 /\ next_tick_time' = n /\ Ahead' = a /\ pc' = pc
  BY <1>1, <1>2, <1>4
<1>14. QED
  BY <1>2, <1>9, <1>10, <1>11, <1>12, <1>13, Zenon DEF TickInTime

LEMMA InTimeKept ==
  ASSUME TimerInvariant, TypeOK', [Next]_vars
  PROVE  TickInTime'
<1>0. TypeOK /\ now \in Int /\ next_tick_time \in Int
  BY Reading DEF TimerInvariant, TypeOK
<1>1. ASSUME NEW k, ReadLo(k) PROVE WholeReads' => WholeReads
  BY <1>1 DEF ReadLo, WholeReads
<1>2. CASE UNCHANGED vars
  BY <1>2, TickSame DEF vars, hardware, clock, WholeReads, Booted
<1>3. CASE FirstHalf
  BY <1>3, TickSame DEF FirstHalf, ReadHi, hardware, clock, WholeReads, Booted, Booting,
     Running, Interrupt
<1>4. CASE sys_clock_init
  <2>1. SUFFICES ASSUME WholeReads' PROVE TickInTime'
    BY DEF TickInTime
  <2>2. /\ now' = now /\ match' = match /\ stale' = match /\ pc' = "user" /\ ReadLo("boot")
        /\ next_tick_time' = sys_timer_full_count + INTERVAL
    BY <1>4 DEF sys_clock_init
  <2>3. hi = CHI
    BY <2>1, <2>2 DEF ReadLo, WholeReads
  <2>4. sys_timer_full_count = now
    BY <1>0, <2>3, Reading
  <2>5. Ahead' \in {0, INTERVAL} /\ (match' => Ahead' = INTERVAL)
    BY <2>2 DEF Ahead
  <2>6. /\ next_tick_time' <= now' + INTERVAL + Ahead' /\ now' < next_tick_time'
        /\ match' => next_tick_time' <= now' + Ahead'
    <3>1. PICK a \in {0, INTERVAL} : a = Ahead' /\ (match' => a = INTERVAL)
      BY <2>5
    <3>2. \A t \in Int : /\ t + INTERVAL <= t + INTERVAL + a /\ t < t + INTERVAL
                         /\ a = INTERVAL => t + INTERVAL <= t + a
      BY Constants
    <3>3. QED
      BY <1>0, <2>2, <2>4, <3>1, <3>2
  <2>7. QED
    BY <2>2, <2>6 DEF TickInTime
<1>5. CASE sys_timer_clear_match
  <2>1. pc = "irq_clear" /\ pc' = "irq_set" /\ ~match' /\ UNCHANGED <<now, next_tick_time, stale, torn>>
    BY <1>5 DEF sys_timer_clear_match, clock
  <2>2. Booted /\ WholeReads' = WholeReads /\ Ahead' = Ahead
    BY <2>1 DEF Booted, Booting, WholeReads, Ahead
  <2>3. ~Settled' /\ ~Running'
    BY <2>1 DEF Settled, Running, Interrupt
  <2>4. QED
    BY <2>1, <2>2, <2>3 DEF TimerInvariant, TickInTime
<1>6. CASE sys_clock_notify_tick
  <2>1. /\ pc = "irq_set" /\ pc' = "irq_hi" /\ UNCHANGED <<now, match, stale, torn>>
        /\ next_tick_time' = next_tick_time + INTERVAL
    BY <1>6 DEF sys_clock_notify_tick, NextTickTime
  <2>2. /\ Booted /\ WholeReads' = WholeReads /\ Ahead' = Ahead /\ ~Running'
        /\ Ahead \in {0, INTERVAL}
    BY <2>1 DEF Booted, Booting, WholeReads, Ahead, Running, Interrupt
  <2>3. WholeReads => /\ next_tick_time <= now + Ahead
                      /\ match => next_tick_time + INTERVAL <= now + Ahead
    BY <2>1, <2>2 DEF TimerInvariant, TickInTime
  <2>4. WholeReads => next_tick_time' <= now' + INTERVAL + Ahead'
    BY <1>0, <2>1, <2>2, <2>3, Constants
  <2>5. QED
    BY <2>1, <2>2, <2>3, <2>4 DEF TickInTime
<1>7. CASE sys_clock_check
  <2>1. /\ pc = "irq_lo" /\ ReadLo("check") /\ UNCHANGED <<now, match, next_tick_time, stale>>
        /\ pc' = IF TickMissed THEN "halted" ELSE "kernel"
    BY <1>7 DEF sys_clock_check, hardware, clock
  <2>2. CASE TickMissed
    BY <1>1, <2>1, <2>2, TickSame DEF Booted, Booting
  <2>3. CASE ~TickMissed
    <3>1. SUFFICES ASSUME WholeReads' PROVE TickInTime'
      BY DEF TickInTime
    <3>2. hi = CHI
      BY <2>1, <3>1 DEF ReadLo, WholeReads
    <3>3. sys_timer_full_count = now
      BY <1>0, <3>2, Reading
    <3>4. now < next_tick_time
      BY <1>0, <2>3, <3>3 DEF TickMissed
    <3>5. pc' = "kernel" /\ WholeReads /\ Booted /\ Settled /\ Ahead' = Ahead
      BY <1>1, <2>1, <2>3, <3>1 DEF Booted, Booting, Settled, Ahead
    <3>6. QED
      BY <2>1, <3>4, <3>5 DEF TimerInvariant, TickInTime
  <2>4. QED
    BY <2>2, <2>3
<1>8. CASE TakeInterrupt
  <2>1. pc = "user" /\ match /\ pc' = "irq_clear" /\ UNCHANGED <<now, match, next_tick_time, stale, torn>>
    BY <1>8 DEF TakeInterrupt, hardware, clock
  <2>2. Booted /\ Settled /\ WholeReads' = WholeReads /\ Ahead' = Ahead /\ ~Settled' /\ ~Running'
    BY <2>1 DEF Booted, Booting, Settled, Running, Interrupt, WholeReads, Ahead
  <2>3. QED
    BY <2>1, <2>2 DEF TimerInvariant, TickInTime
<1>9. CASE SystemCall \/ idle \/ Activate \/ power_standby \/ el_enable_interrupt \/ idle_setup \/ idle_report
  <2>1. UNCHANGED <<now, match, next_tick_time, stale, torn>>
    BY <1>9 DEF SystemCall, idle, Activate, power_standby, el_enable_interrupt, idle_setup,
       idle_report, hardware, clock
  <2>2. Running /\ Running' /\ Booted
    BY <1>9 DEF SystemCall, idle, Activate, power_standby, el_enable_interrupt, idle_setup,
       idle_report, Running, Booted, Booting, Interrupt
  <2>3. QED
    BY <2>1, <2>2, TickSame DEF WholeReads
<1>10. CASE idle_after_enter \/ idle_before_exit
  <2>1. UNCHANGED <<now, match, next_tick_time, stale>> /\ ReadLo("idle")
    BY <1>10 DEF idle_after_enter, idle_before_exit, hardware, clock
  <2>2. Running /\ Running' /\ Booted
    BY <1>10 DEF idle_after_enter, idle_before_exit, Running, Booted, Booting, Interrupt
  <2>3. QED
    BY <1>1, <2>1, <2>2, TickSame
<1>11. QED
  BY <1>2, <1>3, <1>4, <1>5, <1>6, <1>7, <1>8, <1>9, <1>10, CountInTime DEF Next, Masked

\* The error of the busy time after a step, from the one before it.
LEMMA ErrorSame ==
  ASSUME TimerInvariant, TypeOK', Booted, BusyError' = BusyError,
         torn' \cap {"boot", "idle"} = {} => torn \cap {"boot", "idle"} = {}
  PROVE  /\ BusyError' % W = 0
         /\ torn' \cap {"boot", "idle"} = {} => BusyError' = 0
BY DEF TimerInvariant, BusyKept

LEMMA BusyKeptNext ==
  ASSUME TimerInvariant, TypeOK', [Next]_vars
  PROVE  BusyKept'
<1>0. /\ TypeOK /\ now \in Int /\ boot_time \in Int /\ last_exit_time \in Int
      /\ execution_time \in Int /\ busy \in Int /\ W \in Nat \ {0} /\ CHI \in Nat /\ hi \in Nat
      /\ sys_timer_full_count = now + (hi - CHI) * W
      /\ hi = CHI => sys_timer_full_count = now
  BY Reading, Constants DEF TimerInvariant, TypeOK
<1>1. /\ ~idle_ready => /\ execution_time = 0
                        /\ pc \notin Sleeping \cup {"enter_hi", "enter_lo", "unmask"}
      /\ pc \in Booting => busy = 0 /\ ~idle_ready
  BY DEF TimerInvariant, BusyKept
<1>2. ASSUME NEW k, ReadLo(k)
      PROVE  /\ torn' \cap {"boot", "idle"} = {} => torn \cap {"boot", "idle"} = {}
             /\ k \in {"boot", "idle"} /\ torn' \cap {"boot", "idle"} = {} => hi = CHI
  BY <1>2 DEF ReadLo
<1>3. CASE UNCHANGED vars
  BY <1>3 DEF vars, hardware, clock, idleVars, TimerInvariant, BusyKept, BusyError, Outstanding,
     Since, Booted
<1>4. CASE Count
  <2>1. /\ now' = now + 1 /\ UNCHANGED <<pc, torn, idle_ready, execution_time, last_exit_time, boot_time>>
        /\ busy' = IF pc \in Booting \cup Sleeping THEN busy ELSE busy + 1
    BY <1>4 DEF Count, idleVars, clock
  <2>2. Booted => BusyError' = BusyError
    <3>1. Since' = Since /\ Since \in Int
      BY <1>0, <2>1 DEF Since
    <3>2. CASE pc \in Sleeping
      BY <1>0, <2>1, <3>2 DEF BusyError, Outstanding
    <3>3. ASSUME pc \notin Sleeping, Booted PROVE BusyError' = BusyError
      <4>1. busy' = busy + 1 /\ Outstanding = now - Since /\ Outstanding' = (now + 1) - Since
        BY <2>1, <3>1, <3>3 DEF Booted, Outstanding
      <4>2. QED
        BY <1>0, <2>1, <3>1, <4>1 DEF BusyError
    <3>4. QED
      BY <3>2, <3>3
  <2>3. ~Booted => busy' = busy
    BY <2>1 DEF Booted
  <2>4. QED
    BY <1>1, <2>1, <2>2, <2>3, ErrorSame DEF BusyKept, Booted
<1>5. ASSUME UNCHANGED <<now, torn, idle_ready, execution_time, last_exit_time, boot_time, busy>>,
             Booted' = Booted, (pc' \in Sleeping) = (pc \in Sleeping),
             pc' \in {"enter_hi", "enter_lo", "unmask"} => idle_ready
      PROVE  BusyKept'
  <2>1. BusyError' = BusyError
    BY <1>5 DEF BusyError, Outstanding, Since
  <2>2. QED
    BY <1>1, <1>5, <2>1, ErrorSame DEF BusyKept, Booted
<1>6. CASE FirstHalf
  <2>1. idle_ready \/ pc \notin {"enter_hi", "exit_hi"}
    BY <1>1 DEF Sleeping
  <2>2. QED
    BY <1>5, <1>6, <2>1 DEF FirstHalf, ReadHi, hardware, clock, idleVars, Booted, Booting, Sleeping
<1>7. CASE Moves
  BY <1>5, <1>7 DEF Moves, TakeInterrupt, SystemCall, idle, Activate, power_standby,
     el_enable_interrupt, hardware, clock, idleVars, Booted, Booting, Sleeping
<1>8. CASE sys_timer_clear_match \/ sys_clock_notify_tick
  BY <1>5, <1>8 DEF sys_timer_clear_match, sys_clock_notify_tick, clock, idleVars, Booted, Booting,
     Sleeping
<1>9. CASE sys_clock_init
  <2>1. /\ pc = "boot_lo" /\ pc' = "user" /\ ReadLo("boot") /\ boot_time' = sys_timer_full_count
        /\ UNCHANGED <<now, idle_ready, execution_time, busy>>
    BY <1>9 DEF sys_clock_init, idleVars
  <2>2. busy = 0 /\ ~idle_ready /\ execution_time = 0
    BY <1>1, <2>1 DEF Booting
  <2>3. BusyError' = (0 + (now - sys_timer_full_count)) - 0
    BY <2>1, <2>2 DEF BusyError, Outstanding, Since, Sleeping
  <2>4. PICK z \in Int : z = CHI - hi
    BY <1>0
  <2>5. BusyError' = 0 + z * W
    BY <1>0, <2>3, <2>4
  <2>6. BusyError' % W = 0
    <3>1. PICK a \in Int : a = 0
      OBVIOUS
    <3>2. (a + z * W) % W = a % W
      BY <1>0, ModShift
    <3>3. a % W = 0
      BY <1>0, <3>1
    <3>4. QED
      BY <2>5, <3>1, <3>2, <3>3
  <2>7. hi = CHI => BusyError' = 0
    BY <1>0, <2>3
  <2>8. pc' \notin Booting /\ pc' \notin Sleeping \cup {"enter_hi", "enter_lo", "unmask"}
    BY <2>1 DEF Booting, Sleeping
  <2>9. QED
    BY <1>2, <2>1, <2>2, <2>6, <2>7, <2>8 DEF BusyKept
<1>10. CASE sys_clock_check
  <2>1. /\ ReadLo("check") /\ pc = "irq_lo" /\ pc' \in {"halted", "kernel"}
        /\ UNCHANGED <<now, boot_time, idle_ready, execution_time, last_exit_time, busy>>
    BY <1>10 DEF sys_clock_check, hardware, clock, idleVars
  <2>2. BusyError' = BusyError /\ Booted
    BY <2>1 DEF BusyError, Outstanding, Since, Sleeping, Booted, Booting
  <2>3. pc' \notin Booting /\ pc' \notin Sleeping \cup {"enter_hi", "enter_lo", "unmask"}
    BY <2>1 DEF Booting, Sleeping
  <2>4. QED
    BY <1>1, <1>2, <2>1, <2>2, <2>3, ErrorSame DEF BusyKept
<1>11. CASE idle_setup
  <2>1. /\ pc' = pc /\ pc = "user" /\ ~idle_ready /\ idle_ready' /\ last_exit_time' = boot_time
        /\ UNCHANGED <<now, torn, execution_time, busy>>
    BY <1>11 DEF idle_setup, hardware, clock
  <2>2. BusyError' = BusyError /\ Booted /\ pc' \notin Booting
    BY <2>1 DEF BusyError, Outstanding, Since, Sleeping, Booted, Booting
  <2>3. QED
    BY <1>1, <2>1, <2>2, ErrorSame DEF BusyKept
<1>12. CASE idle_report
  <2>1. /\ pc = "report" /\ pc' = "wfi" /\ execution_time' = 0 /\ busy' = 0 /\ idle_ready' = idle_ready
    BY <1>12 DEF idle_report
  <2>2. idle_ready
    BY <1>1, <2>1 DEF Sleeping
  <2>3. BusyError' = 0 /\ 0 % W = 0 /\ pc' \notin Booting
    BY <1>0, <2>1 DEF BusyError, Outstanding, Sleeping, Booting
  <2>4. QED
    BY <2>1, <2>2, <2>3 DEF BusyKept
<1>13. ASSUME NEW e \in Int, NEW z \in Int, Booted, e = BusyError, BusyError' = e + z * W,
              ReadLo("idle"), z = hi - CHI \/ z = CHI - hi
       PROVE  /\ BusyError' % W = 0
              /\ torn' \cap {"boot", "idle"} = {} => BusyError' = 0
  <2>1. e % W = 0 /\ (torn \cap {"boot", "idle"} = {} => e = 0)
    BY <1>13 DEF TimerInvariant, BusyKept
  <2>2. (e + z * W) % W = e % W
    BY <1>0, ModShift
  <2>3. hi = CHI => z = 0
    BY <1>0, <1>13
  <2>4. z = 0 => e + z * W = e
    BY <1>0
  <2>5. QED
    BY <1>2, <1>13, <2>1, <2>2, <2>3, <2>4
<1>14. CASE idle_after_enter
  <2>1. /\ pc = "enter_lo" /\ pc' \in {"report", "wfi"} /\ ReadLo("idle")
        /\ execution_time' = execution_time + (sys_timer_full_count - last_exit_time)
        /\ UNCHANGED <<now, boot_time, idle_ready, last_exit_time, busy>>
    BY <1>14 DEF idle_after_enter, BusyPeriod, hardware, clock
  <2>2. idle_ready /\ Booted /\ pc' \notin Booting
    BY <1>1, <2>1 DEF Booted, Booting
  <2>3. BusyError = (execution_time + (now - last_exit_time)) - busy
    BY <2>1, <2>2 DEF BusyError, Outstanding, Since, Sleeping
  <2>4. BusyError' = (execution_time' + 0) - busy
    BY <2>1 DEF BusyError, Outstanding, Sleeping
  <2>5. PICK e \in Int, z \in Int, d \in Int : e = BusyError /\ z = hi - CHI /\ d = z * W
    BY <1>0, <2>3
  <2>6. sys_timer_full_count = now + d
    BY <1>0, <2>5
  <2>7. BusyError' = e + d
    BY <1>0, <2>1, <2>3, <2>4, <2>5, <2>6
  <2>8. QED
    BY <1>13, <2>1, <2>2, <2>5, <2>7 DEF BusyKept
<1>15. CASE idle_before_exit
  <2>1. /\ pc = "exit_lo" /\ pc' = "unmask" /\ ReadLo("idle")
        /\ last_exit_time' = sys_timer_full_count
        /\ UNCHANGED <<now, boot_time, idle_ready, execution_time, busy>>
    BY <1>15 DEF idle_before_exit, hardware, clock
  <2>2. idle_ready /\ Booted /\ pc' \notin Booting
    BY <1>1, <2>1 DEF Booted, Booting, Sleeping
  <2>3. BusyError = (execution_time + 0) - busy
    BY <2>1 DEF BusyError, Outstanding, Sleeping
  <2>4. BusyError' = (execution_time + (now - sys_timer_full_count)) - busy
    BY <2>1, <2>2 DEF BusyError, Outstanding, Since, Sleeping
  <2>5. PICK e \in Int, z \in Int, d \in Int : e = BusyError /\ z = CHI - hi /\ d = z * W
    BY <1>0, <2>3
  <2>6. now - sys_timer_full_count = d
    BY <1>0, <2>5
  <2>7. BusyError' = e + d
    BY <1>0, <2>3, <2>4, <2>5, <2>6
  <2>8. QED
    BY <1>13, <2>1, <2>2, <2>5, <2>7 DEF BusyKept
<1>16. QED
  BY <1>3, <1>4, <1>6, <1>7, <1>8, <1>9, <1>10, <1>11, <1>12, <1>14, <1>15 DEF Next, Masked, Moves

LEMMA NextTimer == TimerInvariant /\ [Next]_vars => TimerInvariant'
<1> SUFFICES ASSUME TimerInvariant, [Next]_vars PROVE TimerInvariant'
  OBVIOUS
<1>1. TypeOK'
  BY NextTyped DEF TimerInvariant
<1>2. QED
  BY <1>1, SetKept, ReadsKept, InTimeKept, BusyKeptNext DEF TimerInvariant

LEMMA TimerInvariantHolds == Spec => []TimerInvariant
BY InitTimer, NextTimer, PTL DEF Spec

-----------------------------------------------------------------------------
\* While no tick is pending the tick count is the number of whole intervals
\* since boot, for any interval less than half the register's range: no tick is
\* lost, doubled or late, and no error accumulates over any number of ticks.
THEOREM TicksAreExact == Spec => []TicksExact
<1>1. ASSUME TimerInvariant, Running, ~match, WholeReads
      PROVE  \/ tick_count = (now - boot_time) \div INTERVAL
             \/ stale /\ tick_count = ((now - boot_time) \div INTERVAL) + 1
  <2>1. Booted /\ Settled
    BY <1>1 DEF Running, Booted, Settled
  <2>2. PICK t \in Int, b \in Int, k \in Int :
          /\ t = now /\ b = boot_time /\ k = tick_count
          /\ next_tick_time = b + (k + 1) * INTERVAL
    BY <1>1, <2>1, Reading DEF TimerInvariant, TypeOK, ClockSet
  <2>3. PICK p \in Int : p = k * INTERVAL
    BY Constants
  <2>4. next_tick_time = b + (p + INTERVAL)
    BY <2>2, <2>3, Constants
  <2>5. t < b + (p + INTERVAL) /\ b + (p + INTERVAL) <= t + INTERVAL + Ahead
    BY <1>1, <2>1, <2>2, <2>4 DEF TimerInvariant, TickInTime
  <2>6. PICK x \in Int : x = t - b
    OBVIOUS
  <2>7. CASE p <= x
    <3>1. PICK r \in 0 .. INTERVAL - 1 : x = k * INTERVAL + r
      <4>1. x - p \in 0 .. INTERVAL - 1 /\ x = p + (x - p)
        BY <2>5, <2>6, <2>7, Constants
      <4>2. QED
        BY <2>3, <4>1
    <3>2. x \div INTERVAL = k
      BY <3>1, Constants, DivModUnique
    <3>3. QED
      BY <2>2, <2>6, <3>2
  <2>8. CASE ~(p <= x)
    <3>1. stale
      <4>1. SUFFICES ASSUME ~stale PROVE FALSE
        OBVIOUS
      <4>2. Ahead = 0
        BY <4>1 DEF Ahead
      <4>3. QED
        BY <2>5, <2>6, <2>8, <4>2, Constants
    <3>2. Ahead = INTERVAL
      BY <3>1 DEF Ahead
    <3>3. PICK j \in Int, r \in 0 .. INTERVAL - 1 : j = k - 1 /\ x = j * INTERVAL + r
      <4>1. (k - 1) * INTERVAL = p - INTERVAL
        BY <2>3, Constants
      <4>2. x - (p - INTERVAL) \in 0 .. INTERVAL - 1
        BY <2>5, <2>6, <2>8, <3>2, Constants
      <4>3. PICK j \in Int, r \in 0 .. INTERVAL - 1 : j = k - 1 /\ r = x - (p - INTERVAL)
        BY <4>2
      <4>4. x = (p - INTERVAL) + r
        BY <4>3, Constants
      <4>5. QED
        BY <4>1, <4>3, <4>4
    <3>4. x \div INTERVAL = j
      BY <3>3, Constants, DivModUnique
    <3>5. QED
      BY <2>2, <2>6, <3>1, <3>3, <3>4
  <2>9. QED
    BY <2>7, <2>8
<1>2. TimerInvariant => TicksExact
  BY <1>1 DEF TicksExact
<1>3. QED
  BY <1>2, TimerInvariantHolds, PTL

\* The kernel never stops for a tick it could still have handled in time, also
\* when the read of its check was torn.
THEOREM HaltsAreLate == Spec => []HaltOnlyWhenLate
<1>1. ASSUME TimerInvariant, pc = "halted" PROVE now - boot_time >= (tick_count + 1) * INTERVAL
  <2>1. next_tick_time = boot_time + (tick_count + 1) * INTERVAL /\ next_tick_time <= now
    BY <1>1 DEF TimerInvariant, ClockSet, Booted, Booting
  <2>2. PICK t \in Int, b \in Int, p \in Int : t = now /\ b = boot_time /\ p = (tick_count + 1) * INTERVAL
    BY <1>1, Reading, Constants DEF TimerInvariant, TypeOK
  <2>3. b + p <= t
    BY <2>1, <2>2
  <2>4. QED
    BY <2>2, <2>3
<1>2. TimerInvariant => HaltOnlyWhenLate
  BY <1>1 DEF HaltOnlyWhenLate
<1>3. QED
  BY <1>2, TimerInvariantHolds, PTL

\* The idle task's sum is exactly the time outside its sleep, over any number
\* of sleeps, interrupts and reports; a torn read puts it wrong by multiples of
\* the register's range only.
THEOREM BusyTimeIsExact == Spec => []BusyTimeExact
<1>1. ASSUME TimerInvariant, pc \in Sleeping
      PROVE  /\ (execution_time - busy) % W = 0
             /\ torn \cap {"boot", "idle"} = {} => execution_time = busy
  <2>1. Booted
    BY <1>1 DEF Booted, Booting, Sleeping
  <2>2. execution_time \in Int /\ busy \in Int
    BY <1>1 DEF TimerInvariant, TypeOK
  <2>3. BusyError = execution_time - busy
    BY <1>1, <2>2 DEF BusyError, Outstanding
  <2>4. BusyError % W = 0 /\ (torn \cap {"boot", "idle"} = {} => BusyError = 0)
    BY <1>1, <2>1 DEF TimerInvariant, BusyKept
  <2>5. execution_time - busy = 0 => execution_time = busy
    BY <2>2
  <2>6. QED
    BY <2>3, <2>4, <2>5
<1>2. TimerInvariant => BusyTimeExact
  BY <1>1 DEF BusyTimeExact
<1>3. QED
  BY <1>2, TimerInvariantHolds, PTL

-----------------------------------------------------------------------------
(* Recursion.  A function defined by recursion satisfies its equation when *)
(* a measure of the argument decreases, by the least counterexample.       *)

\* A set of numbers that is not empty has a least element.
LEMMA LeastNumber ==
  ASSUME NEW T \in SUBSET Nat, T # {}
  PROVE  \E x \in T : \A y \in T : x <= y
<1> DEFINE R == OpToRel(<, Nat)
<1>1. IsWellFoundedOn(R, Nat)
  BY NatLessThanWellFounded
<1>2. \A a, b \in Nat : <<a, b>> \in R <=> a < b
  BY DEF OpToRel
<1> HIDE DEF R
<1>3. PICK x \in T : \A y \in T : ~(<<y, x>> \in R)
  BY <1>1, WFMin
<1>4. ASSUME NEW y \in T PROVE x <= y
  <2>1. x \in Nat /\ y \in Nat /\ ~(<<y, x>> \in R)
    BY <1>3
  <2>2. ~(y < x)
    BY <1>2, <2>1
  <2>3. QED
    BY <2>1, <2>2
<1>5. QED
  BY <1>4

\* What a recursion gives for k when f is what it gives for pred[k]; and that f
\* satisfies it for every argument of measure n and less.
Unfold(b, pred, step, f, k) == IF k = 0 THEN b ELSE step[k][f[pred[k]]]
UpTo(T, m, n, b, pred, step, f) ==
  \A k \in T : m[k] <= n => f[k] = Unfold(b, pred, step, f, k)
Descends(T, V, m, b, pred, step) ==
  /\ m \in [T -> Nat] /\ b \in V
  /\ \A k \in T : k # 0 => pred[k] \in T /\ m[pred[k]] < m[k]
  /\ \A k \in T : k # 0 => \A v \in V : step[k][v] \in V

\* There is a function that satisfies the recursion up to any measure.
LEMMA Approximation ==
  ASSUME NEW T, NEW V, NEW m, NEW b, NEW pred, NEW step, Descends(T, V, m, b, pred, step),
         NEW n \in Nat
  PROVE  \E f \in [T -> V] : UpTo(T, m, n, b, pred, step, f)
<1> DEFINE Bad == {i \in Nat : ~\E f \in [T -> V] : UpTo(T, m, i, b, pred, step, f)}
<1>1. Bad \in SUBSET Nat /\ \A i \in Nat : i \in Bad <=> ~\E f \in [T -> V] : UpTo(T, m, i, b, pred, step, f)
  OBVIOUS
<1> HIDE DEF Bad
<1>2. SUFFICES ASSUME Bad # {} PROVE FALSE
  BY <1>1
<1>3. PICK x \in Bad : \A y \in Bad : x <= y
  BY <1>1, <1>2, LeastNumber
<1>4. x \in Nat
  BY <1>1, <1>3
<1>5. PICK f \in [T -> V] : \A k \in T : m[k] < x => f[k] = Unfold(b, pred, step, f, k)
  <2>1. CASE x = 0
    <3>1. [k \in T |-> b] \in [T -> V]
      BY DEF Descends
    <3>2. \A k \in T : ~(m[k] < 0)
      BY DEF Descends
    <3>3. QED
      BY <2>1, <3>1, <3>2
  <2>2. CASE x # 0
    <3>1. PICK y \in Nat : y = x - 1 /\ y < x
      BY <1>4, <2>2
    <3>2. y \notin Bad
      BY <1>3, <1>4, <3>1
    <3>3. PICK f \in [T -> V] : UpTo(T, m, y, b, pred, step, f)
      BY <1>1, <3>2
    <3>4. \A k \in T : m[k] < x => m[k] <= y
      BY <1>4, <3>1 DEF Descends
    <3>5. QED
      BY <3>3, <3>4 DEF UpTo
  <2>3. QED
    BY <2>1, <2>2
<1> DEFINE g == [k \in T |-> Unfold(b, pred, step, f, k)]
<1>6. g \in [T -> V]
  BY DEF Descends, Unfold
<1>7. \A k \in T : g[k] = Unfold(b, pred, step, f, k)
  OBVIOUS
<1> HIDE DEF g
<1>8. ASSUME NEW k \in T, m[k] <= x PROVE g[k] = Unfold(b, pred, step, g, k)
  <2>1. CASE k = 0
    BY <1>7, <2>1 DEF Unfold
  <2>2. CASE k # 0
    <3>1. pred[k] \in T /\ m[pred[k]] < x
      BY <1>4, <1>8, <2>2 DEF Descends
    <3>2. g[pred[k]] = f[pred[k]]
      BY <1>5, <1>7, <3>1
    <3>3. QED
      BY <1>7, <3>2 DEF Unfold
  <2>3. QED
    BY <2>1, <2>2
<1>9. UpTo(T, m, x, b, pred, step, g)
  BY <1>8 DEF UpTo
<1>10. QED
  BY <1>1, <1>3, <1>4, <1>6, <1>9

\* Functions that satisfy the recursion up to a measure agree up to it.
LEMMA Agreement ==
  ASSUME NEW T, NEW V, NEW m, NEW b, NEW pred, NEW step, Descends(T, V, m, b, pred, step),
         NEW n \in Nat, NEW f, NEW g, UpTo(T, m, n, b, pred, step, f),
         UpTo(T, m, n, b, pred, step, g), NEW k \in T, m[k] <= n
  PROVE  f[k] = g[k]
<1> DEFINE Bad == {i \in Nat : \E j \in T : m[j] = i /\ i <= n /\ f[j] # g[j]}
<1>1. Bad \in SUBSET Nat /\ \A i \in Nat : i \in Bad <=> \E j \in T : m[j] = i /\ i <= n /\ f[j] # g[j]
  OBVIOUS
<1> HIDE DEF Bad
<1>2. SUFFICES ASSUME f[k] # g[k] PROVE FALSE
  OBVIOUS
<1>3. m[k] \in Nat /\ m[k] \in Bad
  BY <1>1, <1>2 DEF Descends
<1>4. PICK x \in Bad : \A y \in Bad : x <= y
  BY <1>1, <1>3, LeastNumber
<1>5. PICK j \in T : m[j] = x /\ x \in Nat /\ x <= n /\ f[j] # g[j]
  BY <1>1, <1>4
<1>6. f[j] = Unfold(b, pred, step, f, j) /\ g[j] = Unfold(b, pred, step, g, j)
  BY <1>5 DEF UpTo
<1>7. j # 0
  BY <1>5, <1>6 DEF Unfold
<1>8. pred[j] \in T /\ m[pred[j]] < x /\ m[pred[j]] \in Nat
  BY <1>5, <1>7 DEF Descends
<1>9. m[pred[j]] \notin Bad
  BY <1>4, <1>5, <1>8
<1>10. f[pred[j]] = g[pred[j]]
  BY <1>1, <1>5, <1>8, <1>9
<1>11. QED
  BY <1>5, <1>6, <1>10 DEF Unfold

\* The recursion has a solution.
LEMMA Recursion ==
  ASSUME NEW T, NEW V, NEW m, NEW b, NEW pred, NEW step, Descends(T, V, m, b, pred, step)
  PROVE  \E f \in [T -> V] : \A k \in T : f[k] = Unfold(b, pred, step, f, k)
<1> DEFINE A(n) == CHOOSE f \in [T -> V] : UpTo(T, m, n, b, pred, step, f)
           g == [k \in T |-> A(m[k])[k]]
<1>1. \A n \in Nat : A(n) \in [T -> V] /\ UpTo(T, m, n, b, pred, step, A(n))
  BY Approximation
<1>2. \A k \in T : m[k] \in Nat
  BY DEF Descends
<1>3. \A k \in T : g[k] = A(m[k])[k]
  OBVIOUS
<1>4. g \in [T -> V]
  BY <1>1, <1>2
<1> HIDE DEF A, g
<1>5. ASSUME NEW k \in T PROVE g[k] = Unfold(b, pred, step, g, k)
  <2>1. PICK f : f = A(m[k])
    OBVIOUS
  <2>2. UpTo(T, m, m[k], b, pred, step, f) /\ g[k] = f[k]
    BY <1>1, <1>2, <1>3, <2>1
  <2>3. f[k] = Unfold(b, pred, step, f, k)
    BY <1>2, <2>2 DEF UpTo
  <2>4. CASE k = 0
    BY <2>2, <2>3, <2>4 DEF Unfold
  <2>5. CASE k # 0
    <3>1. PICK j \in T : j = pred[k] /\ m[j] < m[k]
      BY <2>5 DEF Descends
    <3>2. PICK h : h = A(m[j])
      OBVIOUS
    <3>3. UpTo(T, m, m[j], b, pred, step, h) /\ g[j] = h[j]
      BY <1>1, <1>2, <1>3, <3>2
    <3>4. UpTo(T, m, m[j], b, pred, step, f)
      <4>1. \A i \in T : m[i] <= m[j] => m[i] <= m[k]
        BY <1>2, <3>1
      <4>2. QED
        BY <2>2, <4>1 DEF UpTo
    <3>5. f[j] = h[j]
      <4>1. PICK n \in Nat : n = m[j] /\ m[j] <= n
        BY <1>2
      <4>2. QED
        BY <3>3, <3>4, <4>1, Agreement
    <3>6. QED
      BY <2>2, <2>3, <3>1, <3>3, <3>5 DEF Unfold
  <2>6. QED
    BY <2>4, <2>5
<1>6. QED
  BY <1>4, <1>5

\* What holds of k when it holds of pred[k] holds everywhere.
Inherited(T, G, m, pred) ==
  /\ m \in [T -> Nat]
  /\ \A k \in T : k # 0 => pred[k] \in T /\ m[pred[k]] < m[k]
  /\ \A k \in T : k = 0 \/ pred[k] \in G => k \in G
LEMMA Descent ==
  ASSUME NEW T, NEW G, NEW m, NEW pred, Inherited(T, G, m, pred)
  PROVE  \A k \in T : k \in G
<1> DEFINE Bad == {i \in Nat : \E k \in T : m[k] = i /\ k \notin G}
<1>1. Bad \in SUBSET Nat /\ \A i \in Nat : i \in Bad <=> \E k \in T : m[k] = i /\ k \notin G
  OBVIOUS
<1> HIDE DEF Bad
<1>2. SUFFICES ASSUME Bad # {} PROVE FALSE
  BY <1>1 DEF Inherited
<1>3. PICK x \in Bad : \A y \in Bad : x <= y
  BY <1>1, <1>2, LeastNumber
<1>4. PICK k \in T : m[k] = x /\ x \in Nat /\ k \notin G
  BY <1>1, <1>3
<1>5. k # 0 /\ pred[k] \in T /\ m[pred[k]] < x /\ m[pred[k]] \in Nat /\ pred[k] \notin G
  BY <1>4 DEF Inherited
<1>6. m[pred[k]] \in Bad
  BY <1>1, <1>5
<1>7. QED
  BY <1>3, <1>4, <1>5, <1>6

-----------------------------------------------------------------------------
(* The conversions of numbers.                                             *)

Magnitude(k) == IF k < 0 THEN -k ELSE k

\* Division by a base of at least two, for a number that is not negative.
LEMMA Halves ==
  ASSUME NEW base \in Nat, base >= 2, NEW n \in Nat
  PROVE  /\ n \div base \in Nat
         /\ n # 0 => n \div base < n
         /\ n - base * (n \div base) \in 0 .. base - 1
<1>1. PICK q \in Int : q = n \div base
  BY DivMod
<1>2. PICK r \in 0 .. base - 1 : r = n % base
  BY DivMod
<1>3. n = q * base + r
  BY <1>1, <1>2, DivMod
<1>4. q * base \in Int /\ base * q = q * base
  OBVIOUS
<1>5. q >= 0
  <2>1. q <= -1 => q * base <= -base
    BY Multiples
  <2>2. QED
    BY <1>3, <1>4, <2>1
<1>6. n # 0 => q < n
  <2>1. q >= 1 => q * base >= q + q
    <3>1. PICK d \in Nat : base = d + 2
      OBVIOUS
    <3>2. q * base = q * d + (q + q) /\ q * d \in Int
      BY <3>1
    <3>3. q >= 1 => q * d >= 0
      BY <3>1
    <3>4. QED
      BY <3>2, <3>3
  <2>2. QED
    BY <1>3, <1>4, <1>5, <2>1
<1>7. n - base * q = r
  BY <1>3, <1>4
<1>8. QED
  BY <1>1, <1>5, <1>6, <1>7

\* C's division brings a number closer to zero; the remainder has its sign.
LEMMA Truncated ==
  ASSUME NEW base \in Nat, base >= 2, NEW n \in Int
  PROVE  /\ Quotient(n, base) \in Int
         /\ n # 0 => Magnitude(Quotient(n, base)) < Magnitude(n)
         /\ Remainder(n, base) \in Int
         /\ n >= 0 => Quotient(n, base) >= 0 /\ Remainder(n, base) \in 0 .. base - 1
         /\ n < 0 => Quotient(n, base) <= 0 /\ -Remainder(n, base) \in 0 .. base - 1
         /\ n = base * Quotient(n, base) + Remainder(n, base)
<1>1. CASE n >= 0
  <2>0. PICK a \in Nat : a = n
    BY <1>1
  <2>1. Quotient(n, base) = a \div base
    BY <1>1, <2>0 DEF Quotient
  <2>2. PICK q \in Nat : q = a \div base
    BY Halves
  <2>3. (n # 0 => q < n) /\ n - base * q \in 0 .. base - 1
    BY <2>0, <2>2, Halves
  <2>4. base * q \in Int
    OBVIOUS
  <2>5. QED
    BY <1>1, <2>1, <2>2, <2>3, <2>4 DEF Remainder, Magnitude
<1>2. CASE n < 0
  <2>1. PICK a \in Nat : a = -n /\ a # 0
    BY <1>2
  <2>2. PICK q \in Nat : q = a \div base
    BY Halves
  <2>3. q < a /\ a - base * q \in 0 .. base - 1
    BY <2>1, <2>2, Halves
  <2>4. Quotient(n, base) = -q
    BY <1>2, <2>1, <2>2 DEF Quotient
  <2>5. base * q \in Int /\ base * (-q) = -(base * q)
    OBVIOUS
  <2>6. QED
    BY <1>2, <2>1, <2>3, <2>4, <2>5 DEF Remainder, Magnitude
<1>3. QED
  BY <1>1, <1>2

\* A digit of a decimal, also a negative one, is its distance from '0'.
LEMMA DigitIs ==
  /\ \A r \in Int : DigitChar(r) \in Char
  /\ \A r \in -9 .. 9 : DigitChar(r) = r + Zero
<1>1. \A r \in Int : DigitChar(r) \in Char
  BY DEF DigitChar, Char, UpperA, Zero
<1>2. \A r \in -9 .. 9 : DigitChar(r) = r + Zero
  BY DEF DigitChar, Zero
<1>3. QED
  BY <1>1, <1>2

\* What Digits computes.
LEMMA DigitsIs ==
  ASSUME NEW base \in Nat, base >= 2
  PROVE  \A n \in Int :
           /\ Digits(n, base) \in Seq(Char)
           /\ Digits(n, base) = IF n = 0 THEN <<>>
                ELSE <<DigitChar(Remainder(n, base))>> \o Digits(Quotient(n, base), base)
<1> DEFINE V == Seq(Char)
           m == [k \in Int |-> Magnitude(k)]
           pred == [k \in Int |-> Quotient(k, base)]
           step == [k \in Int |-> [v \in V |-> <<DigitChar(Remainder(k, base))>> \o v]]
<1>1. /\ \A k \in Int : Quotient(k, base) \in Int
      /\ \A k \in Int : k # 0 => Magnitude(Quotient(k, base)) < Magnitude(k)
      /\ \A k \in Int : Remainder(k, base) \in Int
  BY Truncated
<1>2. \A k \in Int : Magnitude(k) \in Nat
  BY DEF Magnitude
<1>3. ASSUME NEW k \in Int, NEW v \in V
      PROVE  <<DigitChar(Remainder(k, base))>> \o v \in V
  <2>1. PICK c \in Char : c = DigitChar(Remainder(k, base))
    BY <1>1, DigitIs
  <2>2. <<c>> \in Seq(Char)
    OBVIOUS
  <2>3. <<c>> \o v \in Seq(Char)
    BY <2>2, ConcatProperties
  <2>4. QED
    BY <2>1, <2>3
<1>4. <<>> \in V
  OBVIOUS
<1>5. \A k \in Int : m[k] = Magnitude(k) /\ pred[k] = Quotient(k, base)
  OBVIOUS
<1>6. \A k \in Int : \A v \in V : step[k][v] = <<DigitChar(Remainder(k, base))>> \o v
  OBVIOUS
<1>7. m \in [Int -> Nat]
  BY <1>2
<1> HIDE DEF V, m, pred, step
<1>8. Descends(Int, V, m, <<>>, pred, step)
  <2>1. \A k \in Int : k # 0 => pred[k] \in Int /\ m[pred[k]] < m[k]
    BY <1>1, <1>5
  <2>2. \A k \in Int : k # 0 => \A v \in V : step[k][v] \in V
    BY <1>3, <1>6
  <2>3. QED
    BY <1>4, <1>7, <2>1, <2>2 DEF Descends
<1>9. PICK f \in [Int -> V] : \A k \in Int : f[k] = Unfold(<<>>, pred, step, f, k)
  BY <1>8, Recursion
<1>10. ASSUME NEW k \in Int
       PROVE  f[k] = IF k = 0 THEN <<>> ELSE <<DigitChar(Remainder(k, base))>> \o f[Quotient(k, base)]
  <2>1. f[Quotient(k, base)] \in V
    BY <1>1, <1>9
  <2>2. step[k][f[pred[k]]] = <<DigitChar(Remainder(k, base))>> \o f[Quotient(k, base)]
    BY <1>5, <1>6, <2>1
  <2>3. QED
    BY <1>9, <2>2 DEF Unfold
<1>11. f = [k \in Int |-> IF k = 0 THEN <<>> ELSE <<DigitChar(Remainder(k, base))>> \o f[Quotient(k, base)]]
  BY <1>9, <1>10
<1> DEFINE D == CHOOSE w : w = [k \in Int |-> IF k = 0 THEN <<>>
                                 ELSE <<DigitChar(Remainder(k, base))>> \o w[Quotient(k, base)]]
<1>12. D = [k \in Int |-> IF k = 0 THEN <<>> ELSE <<DigitChar(Remainder(k, base))>> \o D[Quotient(k, base)]]
  BY <1>11, Zenon
<1>13. \A n \in Int : Digits(n, base) = D[n]
  BY DEF Digits
<1> HIDE DEF D
<1>14. \A k \in Int : D[k] = IF k = 0 THEN <<>> ELSE <<DigitChar(Remainder(k, base))>> \o D[Quotient(k, base)]
  BY <1>12, Zenon
<1> DEFINE G == {k \in Int : D[k] \in V}
<1>15. \A k \in Int : k \in G
  <2>1. \A k \in Int : k = 0 \/ pred[k] \in G => k \in G
    <3> SUFFICES ASSUME NEW k \in Int, k = 0 \/ D[Quotient(k, base)] \in V
                 PROVE  D[k] \in V
      BY <1>5
    <3>1. CASE k = 0
      BY <1>4, <1>14, <3>1
    <3>2. CASE k # 0
      <4>1. D[k] = <<DigitChar(Remainder(k, base))>> \o D[Quotient(k, base)]
        BY <1>14, <3>2
      <4>2. QED
        BY <1>3, <3>2, <4>1
    <3>3. QED
      BY <3>1, <3>2
  <2>2. \A k \in Int : k # 0 => pred[k] \in Int /\ m[pred[k]] < m[k]
    BY <1>8 DEF Descends
  <2> HIDE DEF G
  <2>3. Inherited(Int, G, m, pred)
    BY <1>7, <2>1, <2>2 DEF Inherited
  <2>4. QED
    BY <2>3, Descent
<1>16. \A k \in Int : D[k] \in Seq(Char)
  BY <1>15 DEF V
<1>17. QED
  BY <1>1, <1>13, <1>14, <1>16

\* The function that Accumulate goes through, and one step of it.
Take(v, c) == (v * 10 + (c - Zero)) % M
Values(s) == CHOOSE w : w = [i \in 0 .. Len(s) |-> IF i = 0 THEN 0 ELSE Take(w[i - 1], s[i])]

LEMMA TakeTyped ==
  ASSUME NEW v \in Int, NEW c \in Int
  PROVE  Take(v, c) \in 0 .. M - 1
<1>1. M \in Nat \ {0}
  BY ModulusAssumption
<1>2. PICK a \in Int : a = v * 10 + (c - Zero)
  BY DEF Zero
<1>3. QED
  BY <1>1, <1>2, DivMod DEF Take

LEMMA ValuesIs ==
  ASSUME NEW s \in Seq(Char)
  PROVE  /\ Accumulate(s) = Values(s)[Len(s)]
         /\ \A i \in 0 .. Len(s) : /\ Values(s)[i] \in 0 .. M - 1
                                   /\ Values(s)[i] = IF i = 0 THEN 0 ELSE Take(Values(s)[i - 1], s[i])
<1>1. PICK n \in Nat : n = Len(s)
  OBVIOUS
<1>2. \A i \in 1 .. n : s[i] \in Int
  <2>1. \A i \in 1 .. n : s[i] \in Char
    BY <1>1
  <2>2. \A c \in Char : c \in Int
    BY DEF Char
  <2>3. QED
    BY <2>1, <2>2
<1> DEFINE T == 0 .. n
           V == 0 .. M - 1
           m == [i \in T |-> i]
           pred == [i \in T |-> i - 1]
           step == [i \in T |-> [v \in V |-> Take(v, s[i])]]
<1>3. /\ \A i \in T : m[i] = i /\ pred[i] = i - 1 /\ \A v \in V : step[i][v] = Take(v, s[i])
      /\ m \in [T -> Nat]
  OBVIOUS
<1>4. 0 \in V /\ \A v \in V : v \in Int
  BY ModulusAssumption
<1>5. \A i \in T : i \in Nat /\ (i # 0 => i \in 1 .. n /\ i - 1 \in T /\ i - 1 < i)
  OBVIOUS
<1>6. \A i \in T : i # 0 => \A v \in V : Take(v, s[i]) \in V
  BY <1>2, <1>4, <1>5, TakeTyped
<1> HIDE DEF T, V, m, pred, step
<1>7. Descends(T, V, m, 0, pred, step)
  <2>1. \A i \in T : i # 0 => pred[i] \in T /\ m[pred[i]] < m[i]
    BY <1>3, <1>5
  <2>2. \A i \in T : i # 0 => \A v \in V : step[i][v] \in V
    BY <1>3, <1>6
  <2>3. QED
    BY <1>3, <1>4, <2>1, <2>2 DEF Descends
<1>8. PICK f \in [T -> V] : \A i \in T : f[i] = Unfold(0, pred, step, f, i)
  BY <1>7, Recursion
<1>9. ASSUME NEW i \in T PROVE f[i] = IF i = 0 THEN 0 ELSE Take(f[i - 1], s[i])
  <2>1. CASE i = 0
    BY <1>8, <2>1 DEF Unfold
  <2>2. CASE i # 0
    <3>1. f[i - 1] \in V
      BY <1>5, <1>8, <2>2
    <3>2. QED
      BY <1>3, <1>8, <2>2, <3>1 DEF Unfold
  <2>3. QED
    BY <2>1, <2>2
<1>10. f = [i \in T |-> IF i = 0 THEN 0 ELSE Take(f[i - 1], s[i])]
  BY <1>8, <1>9
<1>11. Values(s) = [i \in T |-> IF i = 0 THEN 0 ELSE Take(Values(s)[i - 1], s[i])]
  <2>1. \E w : w = [i \in 0 .. Len(s) |-> IF i = 0 THEN 0 ELSE Take(w[i - 1], s[i])]
    BY <1>1, <1>10, Zenon DEF T
  <2>2. Values(s) = [i \in 0 .. Len(s) |-> IF i = 0 THEN 0 ELSE Take(Values(s)[i - 1], s[i])]
    BY <2>1, Zenon DEF Values
  <2>3. QED
    BY <1>1, <2>2, Zenon DEF T
<1>12. Accumulate(s) = Values(s)[Len(s)]
  BY Zenon DEF Accumulate, Values, Take
<1>13. PICK w : w = Values(s)
  OBVIOUS
<1>14. \A i \in T : w[i] = IF i = 0 THEN 0 ELSE Take(w[i - 1], s[i])
  BY <1>11, <1>13, Zenon
<1> DEFINE G == {i \in T : w[i] \in V}
<1>15. \A i \in T : i \in G
  <2>1. \A i \in T : i = 0 \/ pred[i] \in G => i \in G
    <3> SUFFICES ASSUME NEW i \in T, i = 0 \/ w[i - 1] \in V PROVE w[i] \in V
      BY <1>3
    <3>1. QED
      BY <1>4, <1>6, <1>14
  <2>2. \A i \in T : i # 0 => pred[i] \in T /\ m[pred[i]] < m[i]
    BY <1>7 DEF Descends
  <2>3. m \in [T -> Nat]
    BY <1>3
  <2> HIDE DEF G
  <2>4. Inherited(T, G, m, pred)
    BY <2>1, <2>2, <2>3 DEF Inherited
  <2>5. QED
    BY <2>4, Descent
<1>16. \A i \in T : w[i] \in V
  BY <1>15
<1>17. QED
  BY <1>1, <1>12, <1>13, <1>14, <1>16 DEF T, V

LEMMA AccumulateEmpty == Accumulate(<<>>) = 0
<1>1. PICK z \in Seq(Char) : z = <<>> /\ Len(z) = 0
  BY EmptySeq
<1>2. PICK v : v = Values(z)
  OBVIOUS
<1>3. Accumulate(z) = v[Len(z)]
  BY <1>2, ValuesIs
<1>4. \A i \in 0 .. Len(z) : v[i] = IF i = 0 THEN 0 ELSE Take(v[i - 1], z[i])
  BY <1>2, ValuesIs
<1>5. v[0] = 0
  BY <1>1, <1>4
<1>6. QED
  BY <1>1, <1>3, <1>5

LEMMA AccumulateIs ==
  ASSUME NEW s \in Seq(Char), NEW c \in Char
  PROVE  /\ Accumulate(s) \in 0 .. M - 1
         /\ Accumulate(s \o <<c>>) = Take(Accumulate(s), c)
<1>1. PICK n \in Nat : n = Len(s)
  OBVIOUS
<1>2. PICK t \in Seq(Char) : t = Append(s, c) /\ t = s \o <<c>>
  BY AppendProperties, AppendIsConcat
<1>3. Len(t) = n + 1 /\ t[n + 1] = c /\ \A i \in 1 .. n : t[i] = s[i]
  BY <1>1, <1>2
<1>4. PICK v : v = Values(s)
  OBVIOUS
<1>5. PICK w : w = Values(t)
  OBVIOUS
<1>6. /\ Accumulate(s) = v[n] /\ v[n] \in 0 .. M - 1
      /\ \A i \in 0 .. n : v[i] = IF i = 0 THEN 0 ELSE Take(v[i - 1], s[i])
  <2>1. Accumulate(s) = v[Len(s)]
    BY <1>4, ValuesIs
  <2>2. \A i \in 0 .. Len(s) : v[i] \in 0 .. M - 1
    BY <1>4, ValuesIs
  <2>3. \A i \in 0 .. Len(s) : v[i] = IF i = 0 THEN 0 ELSE Take(v[i - 1], s[i])
    BY <1>4, ValuesIs
  <2>4. n \in 0 .. n
    OBVIOUS
  <2>5. QED
    BY <1>1, <2>1, <2>2, <2>3, <2>4
<1>7. /\ Accumulate(t) = w[n + 1]
      /\ \A i \in 0 .. n + 1 : w[i] = IF i = 0 THEN 0 ELSE Take(w[i - 1], t[i])
  <2>1. Accumulate(t) = w[Len(t)]
    BY <1>5, ValuesIs
  <2>2. \A i \in 0 .. Len(t) : w[i] = IF i = 0 THEN 0 ELSE Take(w[i - 1], t[i])
    BY <1>5, ValuesIs
  <2>3. QED
    BY <1>3, <2>1, <2>2
<1> DEFINE T == 0 .. n
           G == {i \in T : v[i] = w[i]}
           m == [i \in T |-> i]
           pred == [i \in T |-> i - 1]
<1>8. \A i \in T : i \in G
  <2>1. \A i \in T : i # 0 => pred[i] \in T /\ m[pred[i]] < m[i]
    OBVIOUS
  <2>2. \A i \in T : i = 0 \/ pred[i] \in G => i \in G
    <3> SUFFICES ASSUME NEW i \in T, i = 0 \/ v[i - 1] = w[i - 1] PROVE v[i] = w[i]
      OBVIOUS
    <3>1. CASE i = 0
      BY <1>6, <1>7, <3>1
    <3>2. CASE i # 0
      BY <1>3, <1>6, <1>7, <3>2
    <3>3. QED
      BY <3>1, <3>2
  <2>3. m \in [T -> Nat]
    OBVIOUS
  <2> HIDE DEF T, G, m, pred
  <2>4. Inherited(T, G, m, pred)
    BY <2>1, <2>2, <2>3 DEF Inherited
  <2>5. QED
    BY <2>4, Descent
<1>9. v[n] = w[n]
  BY <1>8
<1>10. w[n + 1] = Take(w[n], t[n + 1])
  BY <1>7
<1>11. QED
  BY <1>2, <1>3, <1>6, <1>7, <1>9, <1>10

LEMMA ReverseIs ==
  ASSUME NEW s \in Seq(Char), NEW c \in Char
  PROVE  /\ Reverse(s) \in Seq(Char) /\ Len(Reverse(s)) = Len(s)
         /\ Reverse(<<c>> \o s) = Reverse(s) \o <<c>>
         /\ Reverse(Append(s, c)) = <<c>> \o Reverse(s)
<1>1. PICK n \in Nat : n = Len(s)
  OBVIOUS
<1>2. PICK r : r = Reverse(s)
  OBVIOUS
<1>3. r = [i \in 1 .. n |-> s[(n - i) + 1]] /\ \A i \in 1 .. n : s[i] \in Char
  BY <1>1, <1>2 DEF Reverse
<1>4. \A i \in 1 .. n : s[(n - i) + 1] \in Char
  BY <1>3
<1>5. r \in Seq(Char) /\ Len(r) = n /\ \A i \in 1 .. n : r[i] = s[(n - i) + 1]
  BY <1>3, <1>4, IsASeq
<1>6. PICK one \in Seq(Char) : one = <<c>> /\ Len(one) = 1 /\ one[1] = c
  <2>1. <<c>> \in Seq(Char) /\ Len(<<c>>) = 1 /\ <<c>>[1] = c
    OBVIOUS
  <2>2. QED
    BY <2>1, Zenon
<1>7. Reverse(one \o s) = r \o one
  <2>1. PICK t \in Seq(Char) : t = one \o s
    BY ConcatProperties
  <2>2. Len(t) = n + 1 /\ \A i \in 1 .. n + 1 : t[i] = IF i = 1 THEN c ELSE s[i - 1]
    BY <1>1, <1>6, <2>1, ConcatProperties
  <2>3. PICK u \in Seq(Char) : u = r \o one
    BY <1>5, ConcatProperties
  <2>4. Len(u) = n + 1 /\ \A i \in 1 .. n + 1 : u[i] = IF i = n + 1 THEN c ELSE s[(n - i) + 1]
    BY <1>5, <1>6, <2>3, ConcatProperties
  <2>5. Reverse(t) = [i \in 1 .. n + 1 |-> t[(n + 1 - i) + 1]]
    BY <2>2 DEF Reverse
  <2>6. u = [i \in 1 .. n + 1 |-> u[i]]
    BY <2>4
  <2>7. \A i \in 1 .. n + 1 : u[i] = t[(n + 1 - i) + 1]
    <3> SUFFICES ASSUME NEW i \in 1 .. n + 1 PROVE u[i] = t[(n + 1 - i) + 1]
      OBVIOUS
    <3>1. PICK j \in 1 .. n + 1 : j = (n + 1 - i) + 1 /\ (j = 1 <=> i = n + 1) /\ j - 1 = (n - i) + 1
      OBVIOUS
    <3>2. QED
      BY <2>2, <2>4, <3>1
  <2>8. QED
    BY <2>1, <2>3, <2>5, <2>6, <2>7
<1>8. Reverse(Append(s, c)) = one \o r
  <2>1. PICK t \in Seq(Char) : t = Append(s, c)
    BY AppendProperties
  <2>2. Len(t) = n + 1 /\ \A i \in 1 .. n + 1 : t[i] = IF i = n + 1 THEN c ELSE s[i]
    BY <1>1, <2>1
  <2>3. PICK u \in Seq(Char) : u = one \o r
    BY <1>5, ConcatProperties
  <2>4. Len(u) = n + 1 /\ \A i \in 1 .. n + 1 : u[i] = IF i = 1 THEN c ELSE r[i - 1]
    BY <1>5, <1>6, <2>3, ConcatProperties
  <2>5. Reverse(t) = [i \in 1 .. n + 1 |-> t[(n + 1 - i) + 1]]
    BY <2>2 DEF Reverse
  <2>6. u = [i \in 1 .. n + 1 |-> u[i]]
    BY <2>4
  <2>7. \A i \in 1 .. n + 1 : u[i] = t[(n + 1 - i) + 1]
    <3> SUFFICES ASSUME NEW i \in 1 .. n + 1 PROVE u[i] = t[(n + 1 - i) + 1]
      OBVIOUS
    <3>1. PICK j \in 1 .. n + 1 : j = (n + 1 - i) + 1 /\ (j = n + 1 <=> i = 1)
      OBVIOUS
    <3>2. CASE i = 1
      BY <2>2, <2>4, <3>1, <3>2
    <3>3. CASE i # 1
      <4>1. i - 1 \in 1 .. n /\ (n - (i - 1)) + 1 = j
        BY <3>1, <3>3
      <4>2. r[i - 1] = s[j]
        BY <1>5, <4>1
      <4>3. QED
        BY <2>2, <2>4, <3>1, <3>3, <4>2
    <3>4. QED
      BY <3>2, <3>3
  <2>8. QED
    BY <2>1, <2>3, <2>5, <2>6, <2>7
<1>9. QED
  BY <1>1, <1>2, <1>5, <1>6, <1>7, <1>8

\* The digits of a number in the order they are written.
Written(n) == Reverse(Digits(n, 10))

LEMMA WrittenIs ==
  /\ Written(0) = <<>>
  /\ \A n \in Int :
       /\ Written(n) \in Seq(Char)
       /\ n # 0 => \E q \in Int, r \in -9 .. 9 :
            /\ q = Quotient(n, 10) /\ n = 10 * q + r /\ Magnitude(q) < Magnitude(n)
            /\ n >= 0 => q >= 0 /\ r >= 0
            /\ r + Zero \in Char /\ Written(n) = Written(q) \o <<r + Zero>>
<1>1. /\ \A n \in Int : Digits(n, 10) \in Seq(Char)
      /\ \A n \in Int : Digits(n, 10) = IF n = 0 THEN <<>>
           ELSE <<DigitChar(Remainder(n, 10))>> \o Digits(Quotient(n, 10), 10)
  <2>1. PICK base \in Nat : base = 10 /\ base >= 2
    OBVIOUS
  <2>2. \A n \in Int :
           /\ Digits(n, base) \in Seq(Char)
           /\ Digits(n, base) = IF n = 0 THEN <<>>
                ELSE <<DigitChar(Remainder(n, base))>> \o Digits(Quotient(n, base), base)
    BY <2>1, DigitsIs
  <2>3. QED
    BY <2>1, <2>2
<1>2. \A n \in Int : Written(n) \in Seq(Char)
  BY <1>1, ReverseIs, DigitIs DEF Written
<1>3. Written(0) = <<>>
  <2>1. \A n \in Int : n = 0 => Digits(n, 10) = <<>>
    BY <1>1
  <2>2. QED
    BY <2>1 DEF Written, Reverse
<1>4. ASSUME NEW n \in Int, n # 0
      PROVE  \E q \in Int, r \in -9 .. 9 :
               /\ q = Quotient(n, 10) /\ n = 10 * q + r /\ Magnitude(q) < Magnitude(n)
               /\ n >= 0 => q >= 0 /\ r >= 0
               /\ r + Zero \in Char /\ Written(n) = Written(q) \o <<r + Zero>>
  <2>1. PICK q \in Int : q = Quotient(n, 10)
    BY Truncated
  <2>2. PICK r \in Int : r = Remainder(n, 10)
    BY Truncated
  <2>3. /\ Magnitude(q) < Magnitude(n) /\ n = 10 * q + r
        /\ n >= 0 => q >= 0 /\ r \in 0 .. 9
        /\ n < 0 => -r \in 0 .. 9
    <3>1. PICK base \in Nat : base = 10 /\ base >= 2
      OBVIOUS
    <3>2. q = Quotient(n, base) /\ r = Remainder(n, base)
      BY <2>1, <2>2, <3>1
    <3>3. /\ Magnitude(q) < Magnitude(n) /\ n = base * q + r
          /\ n >= 0 => q >= 0 /\ r \in 0 .. base - 1
          /\ n < 0 => -r \in 0 .. base - 1
      BY <1>4, <3>1, <3>2, Truncated
    <3>4. QED
      BY <3>1, <3>3
  <2>4. r \in -9 .. 9
    BY <2>3
  <2>5. DigitChar(r) = r + Zero /\ r + Zero \in Char
    BY <2>4, DigitIs
  <2>6. Digits(n, 10) = <<r + Zero>> \o Digits(q, 10)
    BY <1>1, <1>4, <2>1, <2>2, <2>5
  <2>7. Written(n) = Written(q) \o <<r + Zero>>
    BY <1>1, <2>5, <2>6, ReverseIs DEF Written
  <2>8. QED
    <3>1. n >= 0 => q >= 0 /\ r >= 0
      BY <2>2, <2>3
    <3>2. QED
      BY <2>1, <2>3, <2>4, <2>5, <2>7, <3>1, Zenon
<1>5. QED
  BY <1>2, <1>3, <1>4

\* A number is read back modulo M, whatever its sign.
LEMMA ReadBack == \A n \in Int : Accumulate(Written(n)) = n % M
<1> DEFINE T == Int
           G == {n \in Int : Accumulate(Written(n)) = n % M}
           m == [n \in Int |-> Magnitude(n)]
           pred == [n \in Int |-> Quotient(n, 10)]
<1>1. M \in Nat \ {0}
  BY ModulusAssumption
<1>2. ASSUME NEW n \in Int, n = 0 \/ Accumulate(Written(Quotient(n, 10))) = Quotient(n, 10) % M
      PROVE  Accumulate(Written(n)) = n % M
  <2>1. CASE n = 0
    <3>1. Accumulate(Written(0)) = 0
      BY WrittenIs, AccumulateEmpty
    <3>2. 0 % M = 0
      BY <1>1
    <3>3. QED
      BY <2>1, <3>1, <3>2
  <2>2. CASE n # 0
    <3>1. PICK q \in Int, r \in -9 .. 9 :
            /\ q = Quotient(n, 10) /\ n = 10 * q + r
            /\ r + Zero \in Char /\ Written(n) = Written(q) \o <<r + Zero>>
      BY <2>2, WrittenIs
    <3>2. Written(q) \in Seq(Char)
      BY WrittenIs
    <3>3. Accumulate(Written(n)) = Take(Accumulate(Written(q)), r + Zero)
      BY <3>1, <3>2, AccumulateIs
    <3>4. PICK d \in Int : d = q \div M
      BY <1>1, DivMod
    <3>5. PICK e \in 0 .. M - 1 : e = q % M /\ q = d * M + e
      BY <1>1, <3>4, DivMod
    <3>6. Accumulate(Written(q)) = e
      BY <1>2, <2>2, <3>1, <3>5
    <3>7. Take(e, r + Zero) = (e * 10 + r) % M
      BY DEF Take, Zero
    <3>8. n = (e * 10 + r) + (10 * d) * M
      <4>1. 10 * (d * M) = (10 * d) * M /\ d * M \in Int
        BY <1>1
      <4>2. PICK f \in Int : f = d * M /\ 10 * f = (10 * d) * M
        BY <4>1
      <4>3. n = 10 * (f + e) + r
        BY <3>1, <3>5, <4>2
      <4>4. n = (e * 10 + r) + 10 * f
        BY <4>3
      <4>5. QED
        BY <4>2, <4>4
    <3>9. n % M = (e * 10 + r) % M
      <4>1. PICK a \in Int, z \in Int : a = e * 10 + r /\ z = 10 * d
        BY <1>1
      <4>2. (a + z * M) % M = a % M
        BY <1>1, <4>1, ModShift
      <4>3. QED
        BY <3>8, <4>1, <4>2
    <3>10. QED
      BY <3>3, <3>6, <3>7, <3>9
  <2>3. QED
    BY <2>1, <2>2
<1>3. \A n \in Int : n # 0 => Quotient(n, 10) \in Int /\ Magnitude(Quotient(n, 10)) < Magnitude(n)
  BY Truncated
<1>4. m \in [Int -> Nat]
  BY DEF Magnitude
<1>5. \A n \in Int : m[n] = Magnitude(n) /\ pred[n] = Quotient(n, 10)
  OBVIOUS
<1>6. \A n \in Int : n \in G <=> Accumulate(Written(n)) = n % M
  OBVIOUS
<1> HIDE DEF G, m, pred
<1>7. \A n \in Int : n # 0 => pred[n] \in Int /\ m[pred[n]] < m[n]
  BY <1>3, <1>5
<1>8. \A n \in Int : n = 0 \/ pred[n] \in G => n \in G
  <2> SUFFICES ASSUME NEW n \in Int, n = 0 \/ pred[n] \in G PROVE n \in G
    OBVIOUS
  <2>1. n = 0 \/ Accumulate(Written(Quotient(n, 10))) = Quotient(n, 10) % M
    BY <1>3, <1>5, <1>6
  <2>2. QED
    BY <1>2, <1>6, <2>1
<1>9. Inherited(Int, G, m, pred)
  BY <1>4, <1>7, <1>8 DEF Inherited
<1>10. \A n \in Int : n \in G
  BY <1>9, Descent
<1>11. QED
  BY <1>6, <1>10

\* A number that is positive is written with the digits '0' to '9', the first
\* of them not '0'.
Decimal(s) ==
  /\ Len(s) >= 1 /\ s[1] # Zero
  /\ \A i \in 1 .. Len(s) : s[i] \in Zero .. Zero + 9

LEMMA WrittenDecimal == \A n \in Nat : n # 0 => Decimal(Written(n))
<1> DEFINE G == {n \in Nat : n # 0 => Decimal(Written(n))}
           m == [n \in Nat |-> n]
           pred == [n \in Nat |-> Quotient(n, 10)]
<1>1. ASSUME NEW n \in Nat, n # 0
      PROVE  /\ Quotient(n, 10) \in Nat /\ Quotient(n, 10) < n
             /\ (Quotient(n, 10) # 0 => Decimal(Written(Quotient(n, 10))))
                => Decimal(Written(n))
  <2>1. PICK q \in Int, r \in -9 .. 9 :
          /\ q = Quotient(n, 10) /\ n = 10 * q + r /\ Magnitude(q) < Magnitude(n)
          /\ n >= 0 => q >= 0 /\ r >= 0
          /\ r + Zero \in Char /\ Written(n) = Written(q) \o <<r + Zero>>
    <3>1. n \in Int
      OBVIOUS
    <3>2. QED
      BY <1>1, <3>1, WrittenIs, Zenon
  <2>2. q \in Nat /\ q < n /\ r >= 0
    BY <2>1 DEF Magnitude
  <2>3. PICK c \in Char : c = r + Zero
    BY <2>1
  <2>4. PICK s \in Seq(Char) : s = Written(q)
    BY WrittenIs
  <2>5. PICK t \in Seq(Char) : t = Append(s, c) /\ t = s \o <<c>>
    BY AppendProperties, AppendIsConcat
  <2>6. /\ Len(t) = Len(s) + 1 /\ t[Len(s) + 1] = c /\ \A i \in 1 .. Len(s) : t[i] = s[i]
        /\ Len(s) \in Nat
    BY <2>5
  <2>7. t = Written(n) /\ c \in Zero .. Zero + 9
    <3>1. t = Written(n)
      BY <2>1, <2>3, <2>4, <2>5, Zenon
    <3>2. c \in Zero .. Zero + 9
      BY <2>2, <2>3 DEF Zero
    <3>3. QED
      BY <3>1, <3>2
  <2>8. CASE q = 0
    <3>1. s = <<>> /\ Len(s) = 0
      BY <2>4, <2>8, WrittenIs
    <3>2. r # 0
      BY <1>1, <2>1, <2>8
    <3>3. Decimal(t)
      BY <2>3, <2>6, <2>7, <3>1, <3>2 DEF Decimal, Zero
    <3>4. QED
      BY <2>1, <2>2, <2>7, <3>3
  <2>9. CASE q # 0
    <3>1. ASSUME Decimal(s) PROVE Decimal(t)
      <4>1. Len(s) >= 1 /\ t[1] = s[1] /\ Len(t) >= 1
        BY <2>6, <3>1 DEF Decimal
      <4>2. \A i \in 1 .. Len(t) : t[i] \in Zero .. Zero + 9
        BY <2>6, <2>7, <3>1 DEF Decimal
      <4>3. QED
        BY <3>1, <4>1, <4>2 DEF Decimal
    <3>2. QED
      BY <2>1, <2>2, <2>4, <2>7, <2>9, <3>1
  <2>10. QED
    BY <2>8, <2>9
<1>2. \A n \in Nat : m[n] = n /\ pred[n] = Quotient(n, 10)
  OBVIOUS
<1>3. \A n \in Nat : n \in G <=> (n # 0 => Decimal(Written(n)))
  OBVIOUS
<1>4. m \in [Nat -> Nat]
  OBVIOUS
<1> HIDE DEF G, m, pred
<1>5. \A n \in Nat : n # 0 => pred[n] \in Nat /\ m[pred[n]] < m[n]
  BY <1>1, <1>2
<1>6. \A n \in Nat : n = 0 \/ pred[n] \in G => n \in G
  <2> SUFFICES ASSUME NEW n \in Nat, n # 0, pred[n] \in G PROVE n \in G
    BY <1>3
  <2>1. Quotient(n, 10) \in Nat /\ (Quotient(n, 10) # 0 => Decimal(Written(Quotient(n, 10))))
    BY <1>1, <1>2, <1>3
  <2>2. Decimal(Written(n))
    BY <1>1, <2>1
  <2>3. QED
    BY <1>3, <2>2
<1>7. Inherited(Nat, G, m, pred)
  BY <1>4, <1>5, <1>6 DEF Inherited
<1>8. \A n \in Nat : n \in G
  BY <1>7, Descent
<1>9. QED
  BY <1>3, <1>8

\* A number below the modulus is its own remainder.
LEMMA Small ==
  ASSUME NEW n \in Nat \ {0}, NEW a \in 0 .. n - 1
  PROVE  a % n = a
<1>1. PICK z \in Int : z = 0 /\ z * n = 0
  OBVIOUS
<1>2. a \in Int /\ a = z * n + a
  BY <1>1
<1>3. QED
  BY <1>2, DivModUnique

LEMMA Wrapped ==
  /\ M \in Nat \ {0} /\ M \div 2 \in Nat /\ M = (M \div 2) + (M \div 2)
  /\ IntMin = -(M \div 2) /\ IntMin \in Int
  /\ \A v \in i32 : v \in Int /\ Wrap(v) = v
  /\ Wrap(M \div 2) = IntMin
<1>1. M \in Nat \ {0} /\ M % 2 = 0 /\ M \div 2 \in Nat /\ M = (M \div 2) + (M \div 2)
  BY ModulusAssumption
<1>2. PICK h \in Nat : h = M \div 2 /\ M = h + h /\ IntMin = -h
  BY <1>1 DEF IntMin
<1>3. \A a \in 0 .. M - 1 : a % M = a
  BY <1>1, Small
<1>4. ASSUME NEW v \in i32 PROVE v \in Int /\ Wrap(v) = v
  <2>1. v \in Int /\ v - IntMin \in 0 .. M - 1
    BY <1>2 DEF i32
  <2>2. (v - IntMin) % M = v - IntMin
    BY <1>3, <2>1
  <2>3. QED
    BY <1>2, <2>1, <2>2 DEF Wrap
<1>5. Wrap(h) = IntMin
  <2>1. h - IntMin = M /\ M % M = 0
    <3>1. PICK z \in Int, r \in 0 .. M - 1 : z = 1 /\ r = 0 /\ M = z * M + r
      BY <1>1
    <3>2. M % M = r
      BY <1>1, <3>1, DivModUnique
    <3>3. QED
      BY <1>2, <3>1, <3>2
  <2>2. QED
    BY <1>2, <2>1 DEF Wrap
<1>6. QED
  BY <1>1, <1>2, <1>4, <1>5

\* What is written of a number that is not negative, and read back.
LEMMA Unsigned ==
  ASSUME NEW n \in Nat, n < M
  PROVE  \E s \in Seq(Char) :
           /\ s = IF n = 0 THEN <<Zero>> ELSE Written(n)
           /\ Len(s) >= 1 /\ (n # 0 => Decimal(s)) /\ s[1] # Minus
           /\ s # <<>> /\ Head(s) = s[1] /\ Accumulate(s) = n
<1>1. M \in Nat \ {0}
  BY Wrapped
<1>2. n % M = n
  BY <1>1, Small
<1>3. CASE n = 0
  <2>1. PICK c \in Char : c = Zero
    BY DEF Char, Zero
  <2>2. PICK e \in Seq(Char) : e = <<>>
    BY EmptySeq
  <2>3. PICK s \in Seq(Char) : s = Append(e, c) /\ s = e \o <<c>>
    BY AppendProperties, AppendIsConcat
  <2>4. s = <<c>> /\ Len(s) = 1 /\ s[1] = c /\ s # <<>> /\ Head(s) = s[1]
    BY <2>2, <2>3
  <2>5. Accumulate(s) = Take(0, c)
    BY <2>2, <2>3, AccumulateIs, AccumulateEmpty
  <2>6. Take(0, c) = 0
    BY <1>2, <1>3, <2>1 DEF Take, Zero
  <2>7. s = (IF n = 0 THEN <<Zero>> ELSE Written(n)) /\ s[1] # Minus /\ Len(s) >= 1
    BY <1>3, <2>1, <2>4 DEF Zero, Minus
  <2>8. Accumulate(s) = n /\ ~(n # 0)
    BY <1>3, <2>5, <2>6
  <2>9. QED
    BY <2>4, <2>7, <2>8, Zenon
<1>4. CASE n # 0
  <2>1. n \in Int
    OBVIOUS
  <2>2. PICK s \in Seq(Char) : s = Written(n)
    BY <2>1, WrittenIs
  <2>3. Decimal(s)
    BY <1>4, <2>2, WrittenDecimal
  <2>4. Accumulate(s) = n
    BY <1>2, <2>1, <2>2, ReadBack
  <2>5. Len(s) >= 1 /\ s[1] \in Zero .. Zero + 9
    BY <2>3 DEF Decimal
  <2>6. s[1] # Minus /\ s # <<>> /\ Head(s) = s[1]
    BY <2>5 DEF Zero, Minus
  <2>7. QED
    BY <1>4, <2>2, <2>3, <2>4, <2>5, <2>6
<1>5. QED
  BY <1>3, <1>4

\* What is written of a negative number, and read back.
LEMMA Signed ==
  ASSUME NEW n \in i32, n < 0
  PROVE  \E s \in Seq(Char) :
           /\ s = i32_to_cstring(n, 10)
           /\ s # <<>> /\ Head(s) = Minus
           /\ (n # IntMin => Tail(s) = Written(-n) /\ Decimal(Tail(s)))
           /\ Wrap(-Accumulate(Tail(s))) = n
<1>1. n \in Int /\ M \in Nat \ {0} /\ IntMin \in Int /\ n >= IntMin
  BY Wrapped DEF i32
<1>2. PICK h \in Nat : h = M \div 2 /\ M = h + h /\ IntMin = -h /\ Wrap(h) = IntMin
  BY Wrapped
<1>3. PICK w \in Int : /\ w = Wrap(-n) /\ -n \in 1 .. h
                       /\ w = IF n = IntMin THEN n ELSE -n
  <2>1. -n \in 1 .. h
    BY <1>1, <1>2
  <2>2. CASE n = IntMin
    BY <1>1, <1>2, <2>1, <2>2
  <2>3. CASE n # IntMin
    <3>1. PICK v \in Int : v = -n
      BY <1>1
    <3>2. v \in i32
      BY <1>1, <1>2, <2>3, <3>1 DEF i32
    <3>3. Wrap(v) = v
      BY <3>2, Wrapped
    <3>4. QED
      BY <2>1, <2>3, <3>1, <3>3
  <2>4. QED
    BY <2>2, <2>3
<1>4. PICK d \in Seq(Char) : d = Digits(w, 10)
  <2>1. PICK base \in Nat : base = 10 /\ base >= 2
    OBVIOUS
  <2>2. Digits(w, base) \in Seq(Char)
    BY <2>1, DigitsIs
  <2>3. QED
    BY <2>1, <2>2
<1>5. PICK c \in Char : c = Minus
  BY DEF Char, Minus
<1>6. PICK r \in Seq(Char) : r = Reverse(d) /\ r = Written(w)
  BY <1>4, ReverseIs, DigitIs DEF Written
<1>7. i32_to_cstring(n, 10) = Reverse(Append(d, c))
  BY <1>1, <1>3, <1>4, <1>5 DEF i32_to_cstring
<1>8. PICK s \in Seq(Char) : /\ s = i32_to_cstring(n, 10)
                             /\ s # <<>> /\ Head(s) = Minus /\ Tail(s) = r
  <2>1. PICK one \in Seq(Char) : one = <<c>> /\ Len(one) = 1 /\ one[1] = c
    <3>1. <<c>> \in Seq(Char) /\ Len(<<c>>) = 1 /\ <<c>>[1] = c
      OBVIOUS
    <3>2. QED
      BY <3>1, Zenon
  <2>2. PICK s \in Seq(Char) : s = one \o r
    BY ConcatProperties
  <2>3. s = i32_to_cstring(n, 10)
    <3>1. Reverse(Append(d, c)) = <<c>> \o Reverse(d)
      BY ReverseIs
    <3>2. QED
      BY <1>6, <1>7, <2>1, <2>2, <3>1, Zenon
  <2>4. /\ Len(s) = 1 + Len(r) /\ s[1] = c
        /\ \A i \in 1 .. Len(r) : s[i + 1] = r[i]
    BY <2>1, <2>2, ConcatProperties
  <2>5. s # <<>> /\ Head(s) = c
    BY <2>4
  <2>6. Tail(s) \in Seq(Char) /\ Len(Tail(s)) = Len(r)
        /\ \A i \in 1 .. Len(r) : Tail(s)[i] = s[i + 1]
    BY <2>4, <2>5
  <2>7. Tail(s) = r
    BY <2>4, <2>6, SeqEqual
  <2>8. QED
    BY <1>5, <2>3, <2>5, <2>7
<1>9. Accumulate(r) = w % M
  BY <1>6, ReadBack
<1>10. w % M \in Int /\ Wrap(-(w % M)) = n
  <2>1. CASE n = IntMin
    <3>1. w % M = h
      <4>1. PICK z \in Int : z = -1
        OBVIOUS
      <4>2. z * M = -M
        BY <1>1, <4>1
      <4>3. h \in Int /\ h \in 0 .. M - 1 /\ w = h + z * M
        BY <1>1, <1>2, <1>3, <2>1, <4>2
      <4>4. (h + z * M) % M = h % M
        BY <1>1, <4>3, ModShift
      <4>5. h % M = h
        BY <1>1, <4>3, Small
      <4>6. QED
        BY <4>3, <4>4, <4>5
    <3>2. PICK v \in Int : v = -h
      OBVIOUS
    <3>3. v \in i32
      BY <1>1, <1>2, <3>2 DEF i32
    <3>4. QED
      BY <1>2, <2>1, <3>1, <3>2, <3>3, Wrapped
  <2>2. CASE n # IntMin
    <3>1. w % M = w
      <4>1. w \in 0 .. M - 1
        BY <1>1, <1>2, <1>3, <2>2
      <4>2. QED
        BY <1>1, <4>1, Small
    <3>2. -w = n
      BY <1>1, <1>3, <2>2
    <3>3. QED
      BY <3>1, <3>2, Wrapped
  <2>3. QED
    BY <2>1, <2>2
<1>11. n # IntMin => r = Written(-n) /\ Decimal(r)
  <2> SUFFICES ASSUME n # IntMin PROVE r = Written(-n) /\ Decimal(r)
    OBVIOUS
  <2>1. PICK p \in Nat : p = -n /\ p # 0 /\ p = w
    BY <1>1, <1>3
  <2>2. QED
    BY <1>6, <2>1, WrittenDecimal
<1>12. QED
  BY <1>8, <1>9, <1>10, <1>11

\* Every u32 and every i32, the smallest one included, is read back as it was
\* written, for every number of values the type has (u32_to_cstring,
\* i32_to_cstring, cstring_to_u32, cstring_to_i32).
THEOREM NumbersReadBack ==
  /\ \A n \in u32 : cstring_to_u32(u32_to_cstring(n, 10)) = n
  /\ \A n \in i32 : cstring_to_i32(i32_to_cstring(n, 10)) = n
<1>1. ASSUME NEW n \in u32
      PROVE  cstring_to_u32(u32_to_cstring(n, 10)) = n
  <2>1. n \in Nat /\ n < M
    BY Wrapped DEF u32
  <2>2. Accumulate(IF n = 0 THEN <<Zero>> ELSE Written(n)) = n
    BY <2>1, Unsigned
  <2>3. QED
    BY <2>2 DEF u32_to_cstring, cstring_to_u32, Written
<1>2. ASSUME NEW n \in i32
      PROVE  cstring_to_i32(i32_to_cstring(n, 10)) = n
  <2>1. n \in Int
    BY Wrapped
  <2>2. CASE n >= 0
    <3>1. n \in Nat /\ n < M
      BY <2>1, <2>2, Wrapped DEF i32
    <3>2. PICK s \in Seq(Char) :
            /\ s = IF n = 0 THEN <<Zero>> ELSE Written(n)
            /\ s # <<>> /\ Head(s) # Minus /\ Accumulate(s) = n
      BY <3>1, Unsigned
    <3>3. ~(n < 0)
      BY <3>1
    <3>4. s = i32_to_cstring(n, 10)
      BY <3>2, <3>3 DEF i32_to_cstring, Written
    <3>5. QED
      BY <3>2, <3>4, Wrapped DEF cstring_to_i32
  <2>3. CASE n < 0
    <3>1. PICK s \in Seq(Char) :
            /\ s = i32_to_cstring(n, 10)
            /\ s # <<>> /\ Head(s) = Minus
            /\ Wrap(-Accumulate(Tail(s))) = n
      BY <2>3, Signed
    <3>2. QED
      BY <3>1 DEF cstring_to_i32
  <2>4. QED
    BY <2>1, <2>2, <2>3
<1>3. QED
  BY <1>1, <1>2

\* A number is written in its usual form: the digits '0' to '9', the first not
\* '0' unless it is the only one, after a minus sign if the number is negative;
\* only for the smallest i32 the digits are others (u32_to_cstring,
\* i32_to_cstring).
THEOREM NumbersInUsualForm ==
  /\ u32_to_cstring(0, 10) = <<Zero>>
  /\ \A n \in u32 : n # 0 => Decimal(u32_to_cstring(n, 10))
  /\ \A n \in i32 : n >= 0 => i32_to_cstring(n, 10) = u32_to_cstring(n, 10)
  /\ \A n \in i32 : n < 0 /\ n # IntMin =>
       /\ Head(i32_to_cstring(n, 10)) = Minus
       /\ Tail(i32_to_cstring(n, 10)) = u32_to_cstring(-n, 10)
       /\ Decimal(Tail(i32_to_cstring(n, 10)))
<1>1. ASSUME NEW n \in u32
      PROVE  n # 0 => Decimal(u32_to_cstring(n, 10))
  <2>1. n \in Nat
    BY Wrapped DEF u32
  <2>2. QED
    BY <2>1, WrittenDecimal DEF u32_to_cstring, Written
<1>2. ASSUME NEW n \in i32, n >= 0
      PROVE  i32_to_cstring(n, 10) = u32_to_cstring(n, 10)
  <2>1. ~(n < 0)
    BY <1>2, Wrapped
  <2>2. QED
    BY <2>1 DEF i32_to_cstring, u32_to_cstring
<1>3. ASSUME NEW n \in i32, n < 0, n # IntMin
      PROVE  /\ Head(i32_to_cstring(n, 10)) = Minus
             /\ Tail(i32_to_cstring(n, 10)) = u32_to_cstring(-n, 10)
             /\ Decimal(Tail(i32_to_cstring(n, 10)))
  <2>1. PICK s : /\ s = i32_to_cstring(n, 10) /\ Head(s) = Minus
                 /\ Tail(s) = Written(-n) /\ Decimal(Tail(s))
    BY <1>3, Signed
  <2>2. -n # 0
    BY <1>3, Wrapped
  <2>3. u32_to_cstring(-n, 10) = Written(-n)
    BY <2>2 DEF u32_to_cstring, Written
  <2>4. QED
    BY <2>1, <2>3
<1>4. u32_to_cstring(0, 10) = <<Zero>>
  BY DEF u32_to_cstring
<1>5. QED
  BY <1>1, <1>2, <1>3, <1>4

-----------------------------------------------------------------------------
(* The console.                                                            *)

Piece == [how : {"putc", "puts"}, text : Seq(Char)]
Places == {"poll", "level", "send", "ack", "header", "more", "answer"}

\* The pieces for uart_putc are single characters.
OfPieces(j) ==
  /\ j \in Seq(Piece)
  /\ \A i \in 1 .. Len(j) : j[i].how = "putc" => Len(j[i].text) = 1

ConsoleTyped ==
  /\ job = [t \in Printers |-> job[t]] /\ \A t \in Printers : OfPieces(job[t])
  /\ at \in [Printers -> Places] /\ temp \in [Printers -> Seq(Char)]
  /\ rx \in Seq(Nat)
  /\ txfifo \in Seq(Char) /\ Len(txfifo) <= FIFO /\ line \in Seq(Char)
  /\ overlapped \in BOOLEAN /\ lost \in BOOLEAN
  /\ \A t \in Printers : at[t] \in {"header", "more", "answer"} => job[t] # <<>>

\* What a call at p with the rest x of a frame has found out still holds, when r
\* is in the receive FIFO and n characters are in the transmit FIFO: its answer
\* waits alone, there are as many free places as that says, what it sends fits.
Holds(p, r, x, n) ==
  /\ p \in {"send", "header", "more"} => r = <<>>
  /\ p \in {"level", "ack", "answer"} => Len(r) = 1
  /\ p = "level" => r[1] <= FIFO - n
  /\ p = "send" => n < FIFO
  /\ p \in {"header", "more", "answer"} => Len(x) + n <= FIFO

OneCall ==
  ~overlapped =>
    /\ ~lost
    /\ \A t, u \in Printers : InCall(t) /\ InCall(u) => t = u
    /\ (\A t \in Printers : ~InCall(t)) => rx = <<>>
    /\ \A t \in Printers : Holds(at[t], rx, temp[t], Len(txfifo))

ConsoleInvariant == ConsoleTyped /\ OneCall

LEMMA ConsoleConstants ==
  /\ FIFO \in Nat /\ MAXTEMP \in Nat /\ FIFO >= 2 /\ MAXTEMP >= 2
  /\ \A t \in Printers : Texts[t] \in Seq(Char)
BY ConsoleAssumption

LEMMA CstringTyped ==
  ASSUME NEW base \in Nat, base >= 2
  PROVE  /\ \A n \in Int : u32_to_cstring(n, base) \in Seq(Char)
         /\ \A n \in i32 : i32_to_cstring(n, 10) \in Seq(Char)
<1>1. <<Zero>> \in Seq(Char)
  <2>1. PICK c \in Char : c = Zero
    BY DEF Char, Zero
  <2>2. <<c>> \in Seq(Char)
    OBVIOUS
  <2>3. QED
    BY <2>1, <2>2
<1>2. ASSUME NEW n \in Int PROVE u32_to_cstring(n, base) \in Seq(Char)
  <2>1. Digits(n, base) \in Seq(Char)
    BY DigitsIs
  <2>2. Reverse(Digits(n, base)) \in Seq(Char)
    BY <2>1, ReverseIs, DigitIs
  <2>3. QED
    BY <1>1, <2>2 DEF u32_to_cstring
<1>3. ASSUME NEW n \in i32 PROVE i32_to_cstring(n, 10) \in Seq(Char)
  <2>1. n \in Int
    BY Wrapped
  <2>2. CASE n < 0
    BY <2>2, Signed
  <2>3. CASE ~(n < 0)
    <3>1. Written(n) \in Seq(Char)
      BY <2>1, WrittenIs
    <3>2. QED
      BY <1>1, <2>3, <3>1 DEF i32_to_cstring, Written
  <2>4. QED
    BY <2>2, <2>3
<1>4. QED
  BY <1>2, <1>3

LEMMA PieceIs ==
  /\ \A c \in Char : Putc(c) \in Piece /\ Putc(c).text = <<c>> /\ Len(Putc(c).text) = 1
  /\ \A s \in Seq(Char) : Puts(s) \in Piece /\ Puts(s).how # "putc" /\ Puts(s).text = s
<1>1. ASSUME NEW c \in Char
      PROVE  Putc(c) \in Piece /\ Putc(c).text = <<c>> /\ Len(Putc(c).text) = 1
  <2>1. <<c>> \in Seq(Char) /\ Len(<<c>>) = 1
    OBVIOUS
  <2>2. QED
    BY <2>1 DEF Putc, Piece
<1>2. ASSUME NEW s \in Seq(Char)
      PROVE  Puts(s) \in Piece /\ Puts(s).how # "putc" /\ Puts(s).text = s
  BY DEF Puts, Piece
<1>3. QED
  BY <1>1, <1>2

LEMMA PrintfTyped == \A t \in Printers : OfPieces(printf(Texts[t]))
<1> SUFFICES ASSUME NEW t \in Printers PROVE OfPieces(printf(Texts[t]))
  OBVIOUS
<1>1. PICK s \in Seq(Char) : s = Texts[t]
  BY ConsoleConstants
<1>2. PICK n \in Nat : n = Len(s) /\ DOMAIN s = 1 .. n /\ \A i \in 1 .. n : s[i] \in Char
  BY <1>1
<1>3. PICK j : j = printf(s)
  OBVIOUS
<1>4. j = [i \in 1 .. n |-> Putc(s[i])]
  BY <1>2, <1>3 DEF printf
<1>5. \A i \in 1 .. n : Putc(s[i]) \in Piece /\ Len(Putc(s[i]).text) = 1
  BY <1>2, PieceIs
<1>6. j \in Seq(Piece) /\ Len(j) = n
  BY <1>4, <1>5, IsASeq
<1>7. \A i \in 1 .. n : j[i] = Putc(s[i])
  BY <1>4
<1>8. QED
  BY <1>1, <1>3, <1>5, <1>6, <1>7 DEF OfPieces

LEMMA FormatTyped == \A f \in Formats : OfPieces(uart_printf(f))
<1> SUFFICES ASSUME NEW f \in Formats PROVE OfPieces(uart_printf(f))
  OBVIOUS
<1>1. PICK n \in Nat : n = Len(f) /\ DOMAIN f = 1 .. n
  BY ConsoleAssumption
<1>2. PICK j : j = uart_printf(f)
  OBVIOUS
<1>3. ASSUME NEW i \in 1 .. n
      PROVE  j[i] \in Piece /\ (j[i].how = "putc" => Len(j[i].text) = 1)
  <2>1. j[i] = CASE f[i].k \in {"plain", "%", "c"} -> Putc(f[i].v)
                 [] f[i].k = "s" -> Puts(f[i].v)
                 [] f[i].k = "d" -> Puts(i32_to_cstring(f[i].v, 10))
                 [] f[i].k = "u" -> Puts(u32_to_cstring(f[i].v, 10))
                 [] f[i].k = "p" -> Puts(u32_to_cstring(f[i].v, 16))
    BY <1>1, <1>2 DEF uart_printf
  <2>2. PICK ten \in Nat, sixteen \in Nat : ten = 10 /\ sixteen = 16 /\ ten >= 2 /\ sixteen >= 2
    OBVIOUS
  <2>3. /\ \A m \in u32 : m \in Int
        /\ \A m \in Int : u32_to_cstring(m, 10) \in Seq(Char)
        /\ \A m \in Int : u32_to_cstring(m, 16) \in Seq(Char)
        /\ \A m \in i32 : i32_to_cstring(m, 10) \in Seq(Char)
    <3>1. \A m \in u32 : m \in Int
      BY Wrapped DEF u32
    <3>2. \A m \in Int : u32_to_cstring(m, ten) \in Seq(Char)
      BY <2>2, CstringTyped
    <3>3. \A m \in Int : u32_to_cstring(m, sixteen) \in Seq(Char)
      BY <2>2, CstringTyped
    <3>4. \A m \in i32 : i32_to_cstring(m, 10) \in Seq(Char)
      BY <2>2, CstringTyped
    <3>5. QED
      BY <2>2, <3>1, <3>2, <3>3, <3>4
  <2>4. CASE f[i].k \in {"plain", "%", "c"}
    <3>1. f[i].v \in Char
      BY <1>1, <2>4, ConsoleAssumption
    <3>2. j[i] = Putc(f[i].v)
      BY <2>1, <2>4
    <3>3. QED
      BY <3>1, <3>2, PieceIs
  <2>5. CASE f[i].k = "s"
    <3>1. f[i].v \in Seq(Char)
      BY <1>1, <2>5, ConsoleAssumption
    <3>2. j[i] = Puts(f[i].v)
      BY <2>1, <2>5
    <3>3. QED
      BY <3>1, <3>2, PieceIs
  <2>6. CASE f[i].k = "d"
    <3>1. f[i].v \in i32
      BY <1>1, <2>6, ConsoleAssumption
    <3>2. j[i] = Puts(i32_to_cstring(f[i].v, 10))
      BY <2>1, <2>6
    <3>3. QED
      BY <2>3, <3>1, <3>2, PieceIs
  <2>7. CASE f[i].k = "u"
    <3>1. f[i].v \in u32
      BY <1>1, <2>7, ConsoleAssumption
    <3>2. j[i] = Puts(u32_to_cstring(f[i].v, 10))
      BY <2>1, <2>7
    <3>3. QED
      BY <2>3, <3>1, <3>2, PieceIs
  <2>8. CASE f[i].k = "p"
    <3>1. f[i].v \in u32
      BY <1>1, <2>8, ConsoleAssumption
    <3>2. j[i] = Puts(u32_to_cstring(f[i].v, 16))
      BY <2>1, <2>8
    <3>3. QED
      BY <2>3, <3>1, <3>2, PieceIs
  <2>9. f[i].k \in {"plain", "%", "c", "s", "d", "u", "p"}
    BY <1>1, ConsoleAssumption
  <2>10. QED
    BY <2>4, <2>5, <2>6, <2>7, <2>8, <2>9
<1>4. j = [i \in 1 .. n |-> j[i]]
  <2> DEFINE E(i) == CASE f[i].k \in {"plain", "%", "c"} -> Putc(f[i].v)
                       [] f[i].k = "s" -> Puts(f[i].v)
                       [] f[i].k = "d" -> Puts(i32_to_cstring(f[i].v, 10))
                       [] f[i].k = "u" -> Puts(u32_to_cstring(f[i].v, 10))
                       [] f[i].k = "p" -> Puts(u32_to_cstring(f[i].v, 16))
  <2>1. j = [i \in DOMAIN f |-> E(i)]
    BY <1>2, Zenon DEF uart_printf
  <2> HIDE DEF E
  <2>2. j = [i \in 1 .. n |-> E(i)]
    BY <1>1, <2>1, Zenon
  <2>3. QED
    BY <2>2
<1>5. j \in Seq(Piece) /\ Len(j) = n
  <2>1. \A i \in 1 .. n : j[i] \in Piece
    BY <1>3
  <2>2. QED
    BY <1>4, <2>1, IsASeq
<1>6. QED
  BY <1>2, <1>3, <1>5 DEF OfPieces

LEMMA InitConsole == ConsoleInit => ConsoleInvariant
<1> SUFFICES ASSUME ConsoleInit PROVE ConsoleInvariant
  OBVIOUS
<1>1. PICK e \in Seq(Char) : e = <<>> /\ Len(e) = 0
  BY EmptySeq
<1>2. PICK r \in Seq(Nat) : r = <<>>
  BY EmptySeq
<1>3. job = [t \in Printers |-> job[t]] /\ \A t \in Printers : OfPieces(job[t])
  <2>1. CASE job = [t \in Printers |-> printf(Texts[t])]
    BY <2>1, PrintfTyped
  <2>2. CASE \E t \in Printers, f \in Formats :
               job = [u \in Printers |-> IF u = t THEN uart_printf(f) ELSE <<>>]
    <3>1. OfPieces(<<>>)
      <4>1. <<>> \in Seq(Piece) /\ Len(<<>>) = 0
        OBVIOUS
      <4>2. QED
        BY <4>1 DEF OfPieces
    <3>2. PICK t \in Printers, f \in Formats :
               job = [u \in Printers |-> IF u = t THEN uart_printf(f) ELSE <<>>]
      BY <2>2
    <3>3. QED
      BY <3>1, <3>2, FormatTyped
  <2>3. QED
    BY <2>1, <2>2 DEF ConsoleInit
<1>4. ConsoleTyped
  <2>1. at \in [Printers -> Places] /\ \A t \in Printers : at[t] = "poll"
    BY DEF ConsoleInit, Places
  <2>2. temp \in [Printers -> Seq(Char)]
    BY <1>1 DEF ConsoleInit
  <2>3. /\ rx \in Seq(Nat) /\ txfifo \in Seq(Char) /\ Len(txfifo) <= FIFO /\ line \in Seq(Char)
        /\ overlapped \in BOOLEAN /\ lost \in BOOLEAN
    <3>1. rx = r /\ txfifo = e /\ line = e /\ overlapped = FALSE /\ lost = FALSE
      BY <1>1, <1>2 DEF ConsoleInit
    <3>2. overlapped \in BOOLEAN /\ lost \in BOOLEAN
      BY <3>1, Zenon
    <3>3. rx \in Seq(Nat) /\ txfifo \in Seq(Char) /\ line \in Seq(Char) /\ Len(txfifo) = 0
      BY <1>1, <3>1, Zenon
    <3>4. QED
      BY <3>2, <3>3, ConsoleConstants
  <2>4. QED
    BY <1>3, <2>1, <2>2, <2>3 DEF ConsoleTyped
<1>5. OneCall
  BY DEF ConsoleInit, OneCall, InCall, Holds
<1>6. QED
  BY <1>4, <1>5 DEF ConsoleInvariant

-----------------------------------------------------------------------------
(* Steps of one task.                                                      *)

\* A step of t leads to p, with j still to print and x left of the frame.
StepOf(t, p, j, x) ==
  /\ job' = [job EXCEPT ![t] = j] /\ at' = [at EXCEPT ![t] = p]
  /\ temp' = [temp EXCEPT ![t] = x]

StepTyped(p, j, x) ==
  /\ p \in Places /\ OfPieces(j) /\ x \in Seq(Char)
  /\ p \in {"header", "more", "answer"} => j # <<>>
  /\ rx' \in Seq(Nat)
  /\ txfifo' \in Seq(Char) /\ Len(txfifo') <= FIFO /\ line' \in Seq(Char)
  /\ overlapped' \in BOOLEAN /\ lost' \in BOOLEAN

\* If no task has accessed the bus during another's call, then only t is in a
\* call, and what it has found out holds.
StepAlone(t, p, x) ==
  ~overlapped' =>
    /\ ~lost' /\ \A u \in Printers \ {t} : ~InCall(u)
    /\ p = "poll" => rx' = <<>>
    /\ Holds(p, rx', x, Len(txfifo'))

LEMMA StepKeeps ==
  ASSUME ConsoleInvariant, NEW t \in Printers, NEW p, NEW j, NEW x, StepOf(t, p, j, x),
         StepTyped(p, j, x), StepAlone(t, p, x)
  PROVE  ConsoleInvariant'
<1>1. /\ \A u \in Printers : job'[u] = IF u = t THEN j ELSE job[u]
      /\ \A u \in Printers : at'[u] = IF u = t THEN p ELSE at[u]
      /\ \A u \in Printers : temp'[u] = IF u = t THEN x ELSE temp[u]
      /\ job' = [u \in Printers |-> job'[u]]
      /\ at' \in [Printers -> Places] /\ temp' \in [Printers -> Seq(Char)]
  BY DEF ConsoleInvariant, ConsoleTyped, StepOf, StepTyped
<1>2. ConsoleTyped'
  <2>1. \A u \in Printers : OfPieces(job'[u])
    BY <1>1 DEF ConsoleInvariant, ConsoleTyped, StepTyped
  <2>2. \A u \in Printers : at'[u] \in {"header", "more", "answer"} => job'[u] # <<>>
    BY <1>1 DEF ConsoleInvariant, ConsoleTyped, StepTyped
  <2>3. QED
    BY <1>1, <2>1, <2>2 DEF ConsoleTyped, StepTyped
<1>3. OneCall'
  <2> SUFFICES ASSUME ~overlapped'
               PROVE  /\ ~lost'
                      /\ \A u, v \in Printers : InCall(u)' /\ InCall(v)' => u = v
                      /\ (\A u \in Printers : ~InCall(u)') => rx' = <<>>
                      /\ \A u \in Printers : Holds(at'[u], rx', temp'[u], Len(txfifo'))
    BY DEF OneCall
  <2>1. /\ ~lost' /\ \A u \in Printers : u # t => at'[u] = "poll"
        /\ p = "poll" => rx' = <<>>
        /\ Holds(p, rx', x, Len(txfifo'))
    BY <1>1 DEF StepAlone, InCall
  <2>2. \A u \in Printers : Holds(at'[u], rx', temp'[u], Len(txfifo'))
    BY <1>1, <2>1 DEF Holds
  <2>3. QED
    BY <1>1, <2>1, <2>2 DEF InCall
<1>4. QED
  BY <1>2, <1>3 DEF ConsoleInvariant

LEMMA Unmoved ==
  ASSUME ConsoleInvariant, NEW t \in Printers
  PROVE  job = [job EXCEPT ![t] = job[t]] /\ temp = [temp EXCEPT ![t] = temp[t]]
BY DEF ConsoleInvariant, ConsoleTyped

\* The call at the head of what a task has to print.
LEMMA CallIs ==
  ASSUME ConsoleInvariant, NEW t \in Printers, job[t] # <<>>
  PROVE  /\ Text(t) \in Seq(Char)
         /\ How(t) = "putc" => Len(Text(t)) = 1
         /\ OfPieces(Tail(job[t]))
         /\ \A s \in Seq(Char) : /\ OfPieces(<<Puts(s)>> \o Tail(job[t]))
                                 /\ <<Puts(s)>> \o Tail(job[t]) # <<>>
<1>1. PICK q \in Seq(Piece) : /\ q = job[t] /\ q # <<>>
                              /\ \A i \in 1 .. Len(q) : q[i].how = "putc" => Len(q[i].text) = 1
  BY DEF ConsoleInvariant, ConsoleTyped, OfPieces
<1>2. PICK n \in Nat : n = Len(q) /\ n >= 1 /\ Head(q) = q[1] /\ q[1] \in Piece
  BY <1>1
<1>3. PICK r \in Seq(Piece) : r = Tail(q) /\ Len(r) = n - 1 /\ \A i \in 1 .. n - 1 : r[i] = q[i + 1]
  <2>1. Tail(q) \in Seq(Piece) /\ Len(Tail(q)) = n - 1 /\ \A i \in 1 .. n - 1 : Tail(q)[i] = q[i + 1]
    BY <1>1, <1>2, HeadTailProperties
  <2>2. QED
    BY <2>1, Zenon
<1>4. \A i \in 1 .. n - 1 : r[i].how = "putc" => Len(r[i].text) = 1
  <2> SUFFICES ASSUME NEW i \in 1 .. n - 1, r[i].how = "putc" PROVE Len(r[i].text) = 1
    OBVIOUS
  <2>1. PICK k \in 1 .. n : k = i + 1 /\ r[i] = q[k]
    BY <1>3
  <2>2. QED
    BY <1>1, <1>2, <2>1
<1>5. OfPieces(r)
  BY <1>3, <1>4 DEF OfPieces
<1>6. ASSUME NEW s \in Seq(Char)
      PROVE  OfPieces(<<Puts(s)>> \o r) /\ <<Puts(s)>> \o r # <<>>
  <2>1. PICK c \in Piece : c = Puts(s) /\ c.how # "putc"
    BY PieceIs
  <2>2. PICK one \in Seq(Piece) : one = <<c>> /\ Len(one) = 1 /\ one[1] = c
    <3>1. <<c>> \in Seq(Piece) /\ Len(<<c>>) = 1 /\ <<c>>[1] = c
      OBVIOUS
    <3>2. QED
      BY <3>1, Zenon
  <2>3. PICK w \in Seq(Piece) : w = one \o r
    BY ConcatProperties
  <2>4. Len(w) = n /\ \A i \in 1 .. n : w[i] = IF i = 1 THEN c ELSE r[i - 1]
    BY <1>2, <1>3, <2>2, <2>3, ConcatProperties
  <2>5. \A i \in 1 .. n : w[i].how = "putc" => Len(w[i].text) = 1
    <3> SUFFICES ASSUME NEW i \in 1 .. n, w[i].how = "putc" PROVE Len(w[i].text) = 1
      OBVIOUS
    <3>1. i # 1
      BY <2>1, <2>4
    <3>2. PICK k \in 1 .. n - 1 : k = i - 1 /\ w[i] = r[k]
      BY <2>4, <3>1
    <3>3. QED
      BY <1>4, <3>2
  <2>6. w # <<>>
    BY <1>2, <2>4
  <2>7. QED
    BY <2>1, <2>2, <2>3, <2>4, <2>5, <2>6 DEF OfPieces
<1>7. q[1].text \in Seq(Char) /\ (q[1].how = "putc" => Len(q[1].text) = 1)
  BY <1>1, <1>2 DEF Piece
<1>8. QED
  BY <1>1, <1>2, <1>3, <1>5, <1>6, <1>7 DEF Text, How

\* Characters that fit into the transmit FIFO all arrive there.
LEMMA WriteTHRIs ==
  ASSUME ConsoleInvariant, NEW s \in Seq(Char), WriteTHR(s)
  PROVE  /\ txfifo' \in Seq(Char) /\ Len(txfifo') <= FIFO /\ lost' \in BOOLEAN
         /\ Len(txfifo) + Len(s) <= FIFO => /\ lost' = lost /\ txfifo' = txfifo \o s
                                            /\ Len(txfifo') = Len(txfifo) + Len(s)
<1>1. PICK n \in Nat : n = Len(txfifo) /\ n <= FIFO /\ txfifo \in Seq(Char) /\ lost \in BOOLEAN
  <2>1. Len(txfifo) <= FIFO /\ txfifo \in Seq(Char) /\ lost \in BOOLEAN
    BY DEF ConsoleInvariant, ConsoleTyped
  <2>2. QED
    BY <2>1
<1>2. FIFO \in Nat
  BY ConsoleConstants
<1>3. PICK room \in Nat : /\ room = Least(FIFO - n, Len(s))
                          /\ room <= Len(s) /\ n + room <= FIFO
                          /\ n + Len(s) <= FIFO => room = Len(s)
  <2>1. Len(s) \in Nat
    OBVIOUS
  <2>2. QED
    BY <1>1, <1>2, <2>1 DEF Least
<1>4. PICK x \in Seq(Char) : /\ x = SubSeq(s, 1, room) /\ Len(x) = room
                             /\ room = Len(s) => x = s
  <2>1. SubSeq(s, 1, room) \in Seq(Char) /\ Len(SubSeq(s, 1, room)) = room
    BY <1>3
  <2>2. SubSeq(s, 1, Len(s)) = s
    BY SubSeqFull
  <2>3. QED
    BY <2>1, <2>2
<1>5. txfifo' = txfifo \o x /\ lost' = (lost \/ room < Len(s))
  BY <1>1, <1>3, <1>4 DEF WriteTHR
<1>6. txfifo \o x \in Seq(Char) /\ Len(txfifo \o x) = n + room
  BY <1>1, <1>4, ConcatProperties
<1>7. Len(s) \in Nat /\ lost' \in BOOLEAN /\ (room = Len(s) => lost' = lost)
  BY <1>1, <1>5
<1>8. QED
  BY <1>1, <1>3, <1>4, <1>5, <1>6, <1>7

LEMMA BusWriteIs ==
  ASSUME ConsoleInvariant, NEW t \in Printers, NEW a \in Nat, BusWrite(t, a)
  PROVE  /\ rx' \in Seq(Nat) /\ overlapped' \in BOOLEAN
         /\ rx = <<>> => Len(rx') = 1 /\ rx'[1] = a
         /\ ~overlapped' => ~overlapped /\ \A u \in Printers \ {t} : ~InCall(u)
<1>1. PICK r \in Seq(Nat) : r = rx
  BY DEF ConsoleInvariant, ConsoleTyped
<1>2. rx' = Append(r, a)
  BY <1>1 DEF BusWrite
<1>3. rx' \in Seq(Nat) /\ Len(rx') = Len(r) + 1 /\ rx'[Len(r) + 1] = a
  BY <1>2, AppendProperties
<1>4. r = <<>> => Len(r) = 0
  BY EmptySeq
<1>5. overlapped' = (overlapped \/ \E u \in Printers \ {t} : InCall(u))
  BY DEF BusWrite
<1>6. overlapped' \in BOOLEAN /\ (~overlapped' => ~overlapped /\ \A u \in Printers \ {t} : ~InCall(u))
  BY <1>5, Zenon
<1>7. QED
  BY <1>1, <1>3, <1>4, <1>6

\* What t may rely on when no other task is in a call.
LEMMA AloneIs ==
  ASSUME ConsoleInvariant, NEW t \in Printers, ~overlapped
  PROVE  /\ ~lost /\ Holds(at[t], rx, temp[t], Len(txfifo))
         /\ InCall(t) => \A u \in Printers \ {t} : ~InCall(u)
         /\ (\A u \in Printers \ {t} : ~InCall(u)) /\ ~InCall(t) => rx = <<>>
BY DEF ConsoleInvariant, OneCall

LEMMA ReadIs ==
  ASSUME ConsoleInvariant, rx # <<>>
  PROVE  /\ Tail(rx) \in Seq(Nat) /\ Head(rx) = rx[1] /\ rx[1] \in Nat
         /\ Len(rx) = 1 => Tail(rx) = <<>>
<1>1. PICK r \in Seq(Nat) : r = rx /\ r # <<>>
  BY DEF ConsoleInvariant, ConsoleTyped
<1>2. Len(r) \in Nat /\ Len(r) >= 1 /\ Head(r) = r[1] /\ r[1] \in Nat
  BY <1>1
<1>3. Tail(r) \in Seq(Nat) /\ Len(Tail(r)) = Len(r) - 1
  BY <1>1, <1>2, HeadTailProperties
<1>4. Len(r) = 1 => Tail(r) = <<>>
  <2>1. Len(r) = 1 => Len(Tail(r)) = 0
    BY <1>2, <1>3
  <2>2. QED
    BY <1>3, <2>1, EmptySeq
<1>5. QED
  BY <1>1, <1>2, <1>3, <1>4

\* What is not touched by a step keeps its type.
LEMMA Types ==
  ASSUME ConsoleInvariant
  PROVE  /\ txfifo \in Seq(Char) /\ Len(txfifo) \in Nat /\ Len(txfifo) <= FIFO
         /\ line \in Seq(Char) /\ rx \in Seq(Nat)
         /\ overlapped \in BOOLEAN /\ lost \in BOOLEAN
         /\ \A t \in Printers : OfPieces(job[t]) /\ temp[t] \in Seq(Char) /\ at[t] \in Places
         /\ \A t \in Printers : at[t] \in {"header", "more", "answer"} => job[t] # <<>>
<1>1. txfifo \in Seq(Char) /\ Len(txfifo) <= FIFO
  BY DEF ConsoleInvariant, ConsoleTyped
<1>2. Len(txfifo) \in Nat
  BY <1>1
<1>3. QED
  BY <1>1, <1>2 DEF ConsoleInvariant, ConsoleTyped

LEMMA AskLevel ==
  ASSUME ConsoleInvariant, NEW t \in Printers, ask_level(t)
  PROVE  ConsoleInvariant'
<1> DEFINE a == FIFO - Len(txfifo)
<1>1. a \in Nat
  BY Types, ConsoleConstants
<1>2. /\ at[t] = "poll" /\ BusWrite(t, a) /\ at' = [at EXCEPT ![t] = "level"]
      /\ job' = job /\ temp' = temp /\ txfifo' = txfifo /\ line' = line /\ lost' = lost
  BY DEF ask_level, Goto
<1>3. /\ rx' \in Seq(Nat) /\ overlapped' \in BOOLEAN
      /\ rx = <<>> => Len(rx') = 1 /\ rx'[1] = a
      /\ ~overlapped' => ~overlapped /\ \A u \in Printers \ {t} : ~InCall(u)
  BY <1>1, <1>2, BusWriteIs
<1>4. StepOf(t, "level", job[t], temp[t])
  BY <1>2, Unmoved DEF StepOf
<1>5. StepTyped("level", job[t], temp[t])
  BY <1>2, <1>3, Types DEF StepTyped, Places
<1>6. StepAlone(t, "level", temp[t])
  <2> SUFFICES ASSUME ~overlapped'
               PROVE  /\ ~lost' /\ \A u \in Printers \ {t} : ~InCall(u)
                      /\ Holds("level", rx', temp[t], Len(txfifo'))
    BY DEF StepAlone
  <2>1. ~overlapped /\ \A u \in Printers \ {t} : ~InCall(u)
    BY <1>3
  <2>2. ~lost /\ rx = <<>>
    BY <1>2, <2>1, AloneIs DEF InCall
  <2>3. Len(rx') = 1 /\ rx'[1] = a
    BY <1>3, <2>2
  <2>4. Holds("level", rx', temp[t], Len(txfifo'))
    BY <1>1, <1>2, <2>3 DEF Holds
  <2>5. QED
    BY <1>2, <2>1, <2>2, <2>4
<1>7. QED
  BY <1>4, <1>5, <1>6, StepKeeps

LEMMA PutcLevel ==
  ASSUME ConsoleInvariant, NEW t \in Printers, uart_putc_level(t)
  PROVE  ConsoleInvariant'
<1>1. PICK p : /\ p = IF Head(rx) # 0 THEN "send" ELSE "poll"
               /\ at[t] = "level" /\ rx # <<>> /\ rx' = Tail(rx) /\ at' = [at EXCEPT ![t] = p]
               /\ job' = job /\ temp' = temp /\ txfifo' = txfifo /\ line' = line
               /\ overlapped' = overlapped /\ lost' = lost
  BY DEF uart_putc_level, uart_putc_ready, Goto
<1>2. /\ Tail(rx) \in Seq(Nat) /\ Head(rx) = rx[1] /\ rx[1] \in Nat
      /\ Len(rx) = 1 => Tail(rx) = <<>>
  BY <1>1, ReadIs
<1>3. StepOf(t, p, job[t], temp[t])
  BY <1>1, Unmoved DEF StepOf
<1>4. StepTyped(p, job[t], temp[t])
  BY <1>1, <1>2, Types DEF StepTyped, Places
<1>5. StepAlone(t, p, temp[t])
  <2> SUFFICES ASSUME ~overlapped'
               PROVE  /\ ~lost' /\ \A u \in Printers \ {t} : ~InCall(u)
                      /\ rx' = <<>> /\ Holds(p, rx', temp[t], Len(txfifo'))
    BY DEF StepAlone
  <2>1. ~overlapped
    BY <1>1
  <2>2. /\ ~lost /\ Holds(at[t], rx, temp[t], Len(txfifo))
        /\ \A u \in Printers \ {t} : ~InCall(u)
    BY <1>1, <2>1, AloneIs DEF InCall
  <2>3. rx' = <<>> /\ rx[1] <= FIFO - Len(txfifo)
    BY <1>1, <1>2, <2>2 DEF Holds
  <2>4. p = "send" => Len(txfifo) < FIFO
    <3> SUFFICES ASSUME p = "send" PROVE Len(txfifo) < FIFO
      OBVIOUS
    <3>1. rx[1] # 0
      BY <1>1, <1>2
    <3>2. QED
      BY <1>2, <2>3, <3>1, Types, ConsoleConstants
  <2>5. Holds(p, rx', temp[t], Len(txfifo'))
    BY <1>1, <2>3, <2>4 DEF Holds
  <2>6. QED
    BY <1>1, <2>2, <2>3, <2>5
<1>6. QED
  BY <1>3, <1>4, <1>5, StepKeeps

LEMMA PutcSend ==
  ASSUME ConsoleInvariant, NEW t \in Printers, uart_putc_send(t)
  PROVE  ConsoleInvariant'
<1>1. /\ job[t] # <<>> /\ How(t) = "putc" /\ at[t] = "send" /\ WriteTHR(Text(t))
      /\ at' = [at EXCEPT ![t] = "ack"] /\ job' = job /\ temp' = temp /\ line' = line
  BY DEF uart_putc_send, Goto
<1>2. PICK g \in Nat : BusWrite(t, g)
  BY DEF uart_putc_send, Garbage
<1>3. /\ rx' \in Seq(Nat) /\ overlapped' \in BOOLEAN
      /\ rx = <<>> => Len(rx') = 1
      /\ ~overlapped' => ~overlapped /\ \A u \in Printers \ {t} : ~InCall(u)
  BY <1>2, BusWriteIs
<1>4. PICK s \in Seq(Char) : s = Text(t) /\ Len(s) = 1
  BY <1>1, CallIs
<1>5. /\ txfifo' \in Seq(Char) /\ Len(txfifo') <= FIFO /\ lost' \in BOOLEAN
      /\ Len(txfifo) + Len(s) <= FIFO => lost' = lost
  BY <1>1, <1>4, WriteTHRIs
<1>6. StepOf(t, "ack", job[t], temp[t])
  BY <1>1, Unmoved DEF StepOf
<1>7. StepTyped("ack", job[t], temp[t])
  BY <1>1, <1>3, <1>5, Types DEF StepTyped, Places
<1>8. StepAlone(t, "ack", temp[t])
  <2> SUFFICES ASSUME ~overlapped'
               PROVE  /\ ~lost' /\ \A u \in Printers \ {t} : ~InCall(u)
                      /\ Holds("ack", rx', temp[t], Len(txfifo'))
    BY DEF StepAlone
  <2>1. ~overlapped /\ \A u \in Printers \ {t} : ~InCall(u)
    BY <1>3
  <2>2. ~lost /\ rx = <<>> /\ Len(txfifo) < FIFO
    BY <1>1, <2>1, AloneIs DEF Holds
  <2>3. ~lost'
    BY <1>4, <1>5, <2>2, Types, ConsoleConstants
  <2>4. Holds("ack", rx', temp[t], Len(txfifo'))
    BY <1>3, <2>2 DEF Holds
  <2>5. QED
    BY <2>1, <2>3, <2>4
<1>9. QED
  BY <1>6, <1>7, <1>8, StepKeeps

LEMMA PutcAck ==
  ASSUME ConsoleInvariant, NEW t \in Printers, uart_putc_ack(t)
  PROVE  ConsoleInvariant'
<1>1. /\ job[t] # <<>> /\ at[t] = "ack" /\ rx # <<>> /\ rx' = Tail(rx)
      /\ job' = [job EXCEPT ![t] = Tail(job[t])] /\ at' = [at EXCEPT ![t] = "poll"]
      /\ temp' = temp /\ txfifo' = txfifo /\ line' = line
      /\ overlapped' = overlapped /\ lost' = lost
  BY DEF uart_putc_ack, Goto
<1>2. OfPieces(Tail(job[t]))
  BY <1>1, CallIs
<1>3. StepOf(t, "poll", Tail(job[t]), temp[t])
  BY <1>1, Unmoved DEF StepOf
<1>4. StepTyped("poll", Tail(job[t]), temp[t])
  BY <1>1, <1>2, ReadIs, Types DEF StepTyped, Places
<1>5. StepAlone(t, "poll", temp[t])
  <2> SUFFICES ASSUME ~overlapped'
               PROVE  /\ ~lost' /\ \A u \in Printers \ {t} : ~InCall(u)
                      /\ rx' = <<>> /\ Holds("poll", rx', temp[t], Len(txfifo'))
    BY DEF StepAlone
  <2>1. /\ ~lost /\ Len(rx) = 1 /\ \A u \in Printers \ {t} : ~InCall(u)
    BY <1>1, AloneIs DEF InCall, Holds
  <2>2. QED
    BY <1>1, <2>1, ReadIs DEF Holds
<1>6. QED
  BY <1>3, <1>4, <1>5, StepKeeps

\* A string is its first n characters and the others.
LEMMA Halved ==
  ASSUME NEW s \in Seq(Char), NEW n \in 0 .. Len(s)
  PROVE  SubSeq(s, 1, n) \o SubSeq(s, n + 1, Len(s)) = s
<1>1. PICK m \in 1 .. Len(s) + 1 : m = 1
  OBVIOUS
<1>2. PICK i \in m - 1 .. Len(s) : i = n
  BY <1>1
<1>3. PICK k \in i .. Len(s) : k = Len(s)
  BY <1>2
<1>4. SubSeq(s, m, i) \o SubSeq(s, i + 1, k) = SubSeq(s, m, k)
  BY ConcatAdjacentSubSeq
<1>5. QED
  BY <1>1, <1>2, <1>3, <1>4, SubSeqFull

\* What uart_puts takes from the string into the frame, and what is left.
Taken(t) == IF tlen(Head(rx)) = 0 THEN 0 ELSE Least(tlen(Head(rx)) - 1, Len(Text(t)))
Frame(t) == SubSeq(Text(t), 1, Taken(t))
Rest(t) == SubSeq(Text(t), Taken(t) + 1, Len(Text(t)))

LEMMA TakenIs ==
  ASSUME ConsoleInvariant, NEW t \in Printers, job[t] # <<>>, rx # <<>>
  PROVE  /\ Taken(t) \in 0 .. Len(Text(t)) /\ Taken(t) <= rx[1]
         /\ Frame(t) \in Seq(Char) /\ Len(Frame(t)) = Taken(t)
         /\ Rest(t) \in Seq(Char) /\ Frame(t) \o Rest(t) = Text(t)
<1>1. PICK s \in Seq(Char) : s = Text(t)
  BY CallIs
<1>2. PICK l \in Nat : l = rx[1] /\ l = Head(rx)
  BY ReadIs
<1>3. PICK k \in Nat : k = Len(s)
  OBVIOUS
<1>4. tlen(l) \in Nat /\ tlen(l) <= l
  BY ConsoleConstants DEF tlen, Least
<1>5. PICK n \in 0 .. k : n = Taken(t) /\ n <= l
  <2>1. Taken(t) = IF tlen(l) = 0 THEN 0 ELSE Least(tlen(l) - 1, k)
    BY <1>1, <1>2, <1>3 DEF Taken
  <2>2. Taken(t) \in 0 .. k /\ Taken(t) <= l
    BY <1>4, <2>1 DEF Least
  <2>3. QED
    BY <2>2
<1>6. SubSeq(s, 1, n) \in Seq(Char) /\ Len(SubSeq(s, 1, n)) = n
  BY <1>3, <1>5
<1>7. SubSeq(s, n + 1, k) \in Seq(Char)
  BY <1>3, <1>5
<1>8. SubSeq(s, 1, n) \o SubSeq(s, n + 1, k) = s
  BY <1>3, <1>5, Halved
<1>9. QED
  BY <1>1, <1>2, <1>3, <1>5, <1>6, <1>7, <1>8 DEF Frame, Rest

LEMMA PutsLevel ==
  ASSUME ConsoleInvariant, NEW t \in Printers, uart_puts_level(t)
  PROVE  ConsoleInvariant'
<1> DEFINE j == <<Puts(Rest(t))>> \o Tail(job[t])
<1>1. /\ job[t] # <<>> /\ at[t] = "level" /\ rx # <<>> /\ rx' = Tail(rx)
      /\ job' = [job EXCEPT ![t] = j] /\ at' = [at EXCEPT ![t] = "header"]
      /\ temp' = [temp EXCEPT ![t] = Frame(t)]
      /\ txfifo' = txfifo /\ line' = line /\ overlapped' = overlapped /\ lost' = lost
  BY DEF uart_puts_level, Goto, Frame, Rest, Taken
<1>2. /\ Taken(t) <= rx[1] /\ Frame(t) \in Seq(Char) /\ Len(Frame(t)) = Taken(t)
      /\ Rest(t) \in Seq(Char) /\ Taken(t) \in 0 .. Len(Text(t)) /\ Len(Text(t)) \in Nat
  BY <1>1, TakenIs, CallIs
<1>3. OfPieces(j) /\ j # <<>>
  BY <1>1, <1>2, CallIs
<1> HIDE DEF j
<1>4. StepOf(t, "header", j, Frame(t))
  BY <1>1 DEF StepOf
<1>5. StepTyped("header", j, Frame(t))
  BY <1>1, <1>2, <1>3, ReadIs, Types DEF StepTyped, Places
<1>6. StepAlone(t, "header", Frame(t))
  <2> SUFFICES ASSUME ~overlapped'
               PROVE  /\ ~lost' /\ \A u \in Printers \ {t} : ~InCall(u)
                      /\ Holds("header", rx', Frame(t), Len(txfifo'))
    BY DEF StepAlone
  <2>1. /\ ~lost /\ Len(rx) = 1 /\ rx[1] <= FIFO - Len(txfifo)
        /\ \A u \in Printers \ {t} : ~InCall(u)
    BY <1>1, AloneIs DEF InCall, Holds
  <2>2. rx' = <<>>
    BY <1>1, <2>1, ReadIs
  <2>3. rx[1] \in Nat /\ Len(txfifo) \in Nat /\ FIFO \in Nat /\ Taken(t) \in Nat
    BY <1>1, <1>2, ReadIs, Types, ConsoleConstants
  <2>4. Len(Frame(t)) + Len(txfifo) <= FIFO
    BY <1>2, <2>1, <2>3
  <2>5. QED
    BY <1>1, <2>1, <2>2, <2>4 DEF Holds
<1>7. QED
  BY <1>4, <1>5, <1>6, StepKeeps

\* The characters of the frame that one write of the bus carries.
Carried(t) == Least(WordSize(t), Len(temp[t]))

LEMMA CarriedIs ==
  ASSUME ConsoleInvariant, NEW t \in Printers
  PROVE  /\ SubSeq(temp[t], 1, Carried(t)) \in Seq(Char)
         /\ SubSeq(temp[t], Carried(t) + 1, Len(temp[t])) \in Seq(Char)
         /\ Len(SubSeq(temp[t], 1, Carried(t))) \in Nat
         /\ Len(SubSeq(temp[t], Carried(t) + 1, Len(temp[t]))) \in Nat
         /\ Len(SubSeq(temp[t], 1, Carried(t)))
              + Len(SubSeq(temp[t], Carried(t) + 1, Len(temp[t]))) = Len(temp[t])
         /\ SubSeq(temp[t], 1, Carried(t)) \o SubSeq(temp[t], Carried(t) + 1, Len(temp[t])) = temp[t]
<1>1. PICK s \in Seq(Char) : s = temp[t]
  BY Types
<1>2. PICK k \in Nat : k = Len(s)
  OBVIOUS
<1>3. PICK n \in 0 .. k : n = Carried(t)
  <2>1. WordSize(t) \in Nat
    BY DEF WordSize
  <2>2. Carried(t) = Least(WordSize(t), k)
    BY <1>1, <1>2 DEF Carried
  <2>3. Carried(t) \in 0 .. k
    BY <2>1, <2>2 DEF Least
  <2>4. QED
    BY <2>3
<1>4. PICK x \in Seq(Char) : x = SubSeq(s, 1, n) /\ Len(x) = n
  <2>1. SubSeq(s, 1, n) \in Seq(Char) /\ Len(SubSeq(s, 1, n)) = n
    BY <1>2, <1>3
  <2>2. QED
    BY <2>1
<1>5. PICK y \in Seq(Char) : y = SubSeq(s, n + 1, k)
  <2>1. SubSeq(s, n + 1, k) \in Seq(Char)
    BY <1>2, <1>3
  <2>2. QED
    BY <2>1
<1>6. x \o y = s
  BY <1>2, <1>3, <1>4, <1>5, Halved
<1>7. Len(x) + Len(y) = k /\ Len(x) \in Nat /\ Len(y) \in Nat
  BY <1>2, <1>6, ConcatProperties
<1>8. QED
  BY <1>1, <1>2, <1>3, <1>4, <1>5, <1>6, <1>7

LEMMA FrameWrite ==
  ASSUME ConsoleInvariant, NEW t \in Printers, spi_send_recv_write(t)
  PROVE  ConsoleInvariant'
<1>1. PICK s \in Seq(Char) : s = SubSeq(temp[t], 1, Carried(t)) /\ Len(s) \in Nat
  BY CarriedIs
<1>2. PICK x \in Seq(Char) : /\ x = SubSeq(temp[t], Carried(t) + 1, Len(temp[t])) /\ Len(x) \in Nat
                             /\ Len(s) + Len(x) = Len(temp[t])
  BY <1>1, CarriedIs
<1>3. /\ at[t] \in {"header", "more"} /\ WriteTHR(s)
      /\ at' = [at EXCEPT ![t] = "answer"] /\ temp' = [temp EXCEPT ![t] = x]
      /\ job' = job /\ line' = line
  BY <1>1, <1>2 DEF spi_send_recv_write, Goto, Carried
<1>4. PICK g \in Nat : BusWrite(t, g)
  BY DEF spi_send_recv_write, Garbage
<1>5. /\ rx' \in Seq(Nat) /\ overlapped' \in BOOLEAN
      /\ rx = <<>> => Len(rx') = 1
      /\ ~overlapped' => ~overlapped /\ \A u \in Printers \ {t} : ~InCall(u)
  BY <1>4, BusWriteIs
<1>6. /\ txfifo' \in Seq(Char) /\ Len(txfifo') <= FIFO /\ lost' \in BOOLEAN
      /\ Len(txfifo) + Len(s) <= FIFO => lost' = lost /\ Len(txfifo') = Len(txfifo) + Len(s)
  BY <1>3, WriteTHRIs
<1>7. StepOf(t, "answer", job[t], x)
  BY <1>3, Unmoved DEF StepOf
<1>8. StepTyped("answer", job[t], x)
  BY <1>3, <1>5, <1>6, Types DEF StepTyped, Places
<1>9. StepAlone(t, "answer", x)
  <2> SUFFICES ASSUME ~overlapped'
               PROVE  /\ ~lost' /\ \A u \in Printers \ {t} : ~InCall(u)
                      /\ Holds("answer", rx', x, Len(txfifo'))
    BY DEF StepAlone
  <2>1. ~overlapped /\ \A u \in Printers \ {t} : ~InCall(u)
    BY <1>5
  <2>2. ~lost /\ rx = <<>> /\ Len(temp[t]) + Len(txfifo) <= FIFO
    BY <1>3, <2>1, AloneIs DEF Holds
  <2>3. ~lost' /\ Len(x) + Len(txfifo') <= FIFO
    <3>1. /\ Len(txfifo) \in Nat /\ FIFO \in Nat
          /\ Len(s) + Len(x) + Len(txfifo) <= FIFO
      BY <1>1, <1>2, <2>2, Types, ConsoleConstants
    <3>2. lost' = lost /\ Len(txfifo') = Len(txfifo) + Len(s)
      BY <1>1, <1>2, <1>6, <3>1
    <3>3. ~lost'
      BY <2>2, <3>2
    <3>4. PICK a \in Nat, b \in Nat, c \in Nat, d \in Nat :
            a = Len(s) /\ b = Len(x) /\ c = Len(txfifo) /\ d = FIFO
      BY <1>1, <1>2, <3>1
    <3>5. Len(txfifo') = c + a /\ a + b + c <= d
      BY <3>1, <3>2, <3>4, Zenon
    <3>6. b + (c + a) <= d
      BY <3>5
    <3>7. QED
      BY <3>3, <3>4, <3>5, <3>6, Zenon
  <2>4. Holds("answer", rx', x, Len(txfifo'))
    BY <1>5, <2>2, <2>3 DEF Holds
  <2>5. QED
    BY <2>1, <2>3, <2>4
<1>10. QED
  BY <1>7, <1>8, <1>9, StepKeeps

LEMMA FrameRead ==
  ASSUME ConsoleInvariant, NEW t \in Printers, spi_send_recv_read(t)
  PROVE  ConsoleInvariant'
<1>1. /\ at[t] = "answer" /\ rx # <<>> /\ rx' = Tail(rx)
      /\ temp' = temp /\ txfifo' = txfifo /\ line' = line
      /\ overlapped' = overlapped /\ lost' = lost
  BY DEF spi_send_recv_read
<1>2. job[t] # <<>>
  BY <1>1, Types
<1>3. PICK p, j : /\ OfPieces(j) /\ StepOf(t, p, j, temp[t])
                  /\ \/ p = "more" /\ j = job[t]
                     \/ p = "poll"
  <2>1. CASE temp[t] # <<>>
    <3>1. at' = [at EXCEPT ![t] = "more"] /\ job' = job
      BY <2>1 DEF spi_send_recv_read, Goto
    <3>2. StepOf(t, "more", job[t], temp[t])
      BY <1>1, <3>1, Unmoved DEF StepOf
    <3>3. QED
      BY <3>2, Types
  <2>2. CASE temp[t] = <<>>
    <3>1. /\ at' = [at EXCEPT ![t] = "poll"]
          /\ job' = [job EXCEPT ![t] = Tail(job[t])] \/ job' = job
      BY <2>2 DEF spi_send_recv_read, Goto
    <3>2. StepOf(t, "poll", Tail(job[t]), temp[t]) \/ StepOf(t, "poll", job[t], temp[t])
      BY <1>1, <3>1, Unmoved DEF StepOf
    <3>3. QED
      BY <1>2, <3>2, Types, CallIs
  <2>3. QED
    BY <2>1, <2>2
<1>4. StepTyped(p, j, temp[t])
  BY <1>1, <1>2, <1>3, ReadIs, Types DEF StepTyped, Places
<1>5. StepAlone(t, p, temp[t])
  <2> SUFFICES ASSUME ~overlapped'
               PROVE  /\ ~lost' /\ \A u \in Printers \ {t} : ~InCall(u)
                      /\ rx' = <<>> /\ Holds(p, rx', temp[t], Len(txfifo'))
    BY DEF StepAlone
  <2>1. /\ ~lost /\ Len(rx) = 1 /\ Len(temp[t]) + Len(txfifo) <= FIFO
        /\ \A u \in Printers \ {t} : ~InCall(u)
    BY <1>1, AloneIs DEF InCall, Holds
  <2>2. rx' = <<>>
    BY <1>1, <2>1, ReadIs
  <2>3. QED
    BY <1>1, <1>3, <2>1, <2>2 DEF Holds
<1>6. QED
  BY <1>3, <1>4, <1>5, StepKeeps

LEMMA Transmitted ==
  ASSUME ConsoleInvariant, Transmit
  PROVE  ConsoleInvariant'
<1>1. PICK q \in Seq(Char) : q = txfifo /\ q # <<>>
  BY Types DEF Transmit
<1>2. /\ txfifo' = Tail(q) /\ line' = Append(line, Head(q))
      /\ UNCHANGED <<job, at, temp, rx, overlapped, lost>>
  BY <1>1 DEF Transmit
<1>3. Tail(q) \in Seq(Char) /\ Len(Tail(q)) = Len(q) - 1 /\ Head(q) \in Char /\ Len(q) \in Nat
  BY <1>1, HeadTailProperties
<1>4. Len(txfifo') < Len(txfifo) /\ Len(txfifo') \in Nat /\ line' \in Seq(Char)
  BY <1>1, <1>2, <1>3, Types, AppendProperties
<1>5. ConsoleTyped'
  <2>1. txfifo' \in Seq(Char) /\ Len(txfifo') <= FIFO
    BY <1>1, <1>2, <1>3, <1>4, Types, ConsoleConstants
  <2>2. QED
    BY <1>2, <1>4, <2>1 DEF ConsoleInvariant, ConsoleTyped
<1>6. OneCall'
  <2> SUFFICES ASSUME ~overlapped
               PROVE  /\ ~lost
                      /\ \A u, v \in Printers : InCall(u) /\ InCall(v) => u = v
                      /\ (\A u \in Printers : ~InCall(u)) => rx = <<>>
                      /\ \A u \in Printers : Holds(at[u], rx, temp[u], Len(txfifo'))
    BY <1>2 DEF OneCall, InCall
  <2>1. ASSUME NEW u \in Printers PROVE Holds(at[u], rx, temp[u], Len(txfifo'))
    <3>1. Holds(at[u], rx, temp[u], Len(txfifo))
      BY DEF ConsoleInvariant, OneCall
    <3>2. /\ Len(txfifo') < Len(txfifo) /\ Len(txfifo') \in Nat /\ Len(txfifo) \in Nat
          /\ FIFO \in Nat /\ Len(temp[u]) \in Nat
      BY <1>4, Types, ConsoleConstants
    <3>3. at[u] = "level" => rx[1] \in Nat
      <4> SUFFICES ASSUME at[u] = "level" PROVE rx[1] \in Nat
        OBVIOUS
      <4>1. Len(rx) = 1
        BY <3>1 DEF Holds
      <4>2. PICK r \in Seq(Nat) : r = rx
        BY Types
      <4>3. r[1] \in Nat
        BY <4>1, <4>2
      <4>4. QED
        BY <4>2, <4>3
    <3>4. QED
      BY <3>1, <3>2, <3>3 DEF Holds
  <2>2. QED
    BY <2>1 DEF ConsoleInvariant, OneCall
<1>7. QED
  BY <1>5, <1>6 DEF ConsoleInvariant

LEMMA NextConsole == ConsoleInvariant /\ [ConsoleNext]_console => ConsoleInvariant'
<1> SUFFICES ASSUME ConsoleInvariant, [ConsoleNext]_console PROVE ConsoleInvariant'
  OBVIOUS
<1>1. CASE Transmit
  BY <1>1, Transmitted
<1>2. ASSUME NEW t \in Printers, Step(t) PROVE ConsoleInvariant'
  BY <1>2, AskLevel, PutcLevel, PutcSend, PutcAck, PutsLevel, FrameWrite, FrameRead DEF Step
<1>3. CASE UNCHANGED console
  BY <1>3 DEF console, ConsoleInvariant, ConsoleTyped, OneCall, InCall
<1>4. QED
  BY <1>1, <1>2, <1>3 DEF ConsoleNext

LEMMA ConsoleInvariantHolds == ConsoleSpec => []ConsoleInvariant
<1>1. ConsoleInvariant /\ [ConsoleNext]_console => ConsoleInvariant'
  BY NextConsole
<1>2. QED
  BY InitConsole, <1>1, PTL DEF ConsoleSpec

\* A character is lost only if a task has accessed the bus during another's call,
\* for any tasks and texts: in a call that no other task interrupts the polled
\* level is its own and still true when the characters are written, whatever
\* bytes answer the writes (uart_putc, uart_puts, spi_send_recv).
THEOREM CharactersAreSafe == ConsoleSpec => []LostOnlyByOverlap
<1>1. ConsoleInvariant => LostOnlyByOverlap
  BY DEF ConsoleInvariant, OneCall, LostOnlyByOverlap
<1>2. QED
  BY <1>1, ConsoleInvariantHolds, PTL

-----------------------------------------------------------------------------
(* What a task prints alone.                                               *)

\* The texts of pieces, one after the other; and the function behind it, whose
\* value for i joins the last i of them.
TextsFrom(pieces) ==
  CHOOSE w : w = [i \in 0 .. Len(pieces) |->
                    IF i = 0 THEN <<>> ELSE pieces[(Len(pieces) - i) + 1].text \o w[i - 1]]
Joined(pieces) == TextsFrom(pieces)[Len(pieces)]

LEMMA TextsFromIs ==
  ASSUME NEW s \in Seq(Piece)
  PROVE  \A i \in 0 .. Len(s) :
           /\ TextsFrom(s)[i] \in Seq(Char)
           /\ TextsFrom(s)[i] = IF i = 0 THEN <<>>
                                ELSE s[(Len(s) - i) + 1].text \o TextsFrom(s)[i - 1]
<1>1. PICK n \in Nat : n = Len(s)
  OBVIOUS
<1> DEFINE T == 0 .. n
           V == Seq(Char)
           x(i) == s[(n - i) + 1].text
           m == [i \in T |-> i]
           pred == [i \in T |-> i - 1]
           step == [i \in T |-> [v \in V |-> x(i) \o v]]
<1>2. \A i \in T : i # 0 => x(i) \in V
  <2> SUFFICES ASSUME NEW i \in T, i # 0 PROVE x(i) \in V
    OBVIOUS
  <2>1. PICK k \in 1 .. n : k = (n - i) + 1
    OBVIOUS
  <2>2. s[k] \in Piece
    BY <1>1
  <2>3. QED
    BY <2>1, <2>2 DEF Piece
<1> HIDE DEF x
<1>3. /\ \A i \in T : m[i] = i /\ pred[i] = i - 1 /\ \A v \in V : step[i][v] = x(i) \o v
      /\ m \in [T -> Nat]
  OBVIOUS
<1>4. \A i \in T : i \in Nat /\ (i # 0 => i - 1 \in T /\ i - 1 < i)
  OBVIOUS
<1>5. \A i \in T : i # 0 => \A v \in V : x(i) \o v \in V
  <2> SUFFICES ASSUME NEW i \in T, i # 0, NEW v \in V PROVE x(i) \o v \in V
    OBVIOUS
  <2>1. PICK y \in Seq(Char) : y = x(i)
    BY <1>2
  <2>2. y \o v \in Seq(Char)
    BY ConcatProperties
  <2>3. QED
    BY <2>1, <2>2
<1>6. <<>> \in V
  OBVIOUS
<1> HIDE DEF T, V, m, pred, step
<1>7. Descends(T, V, m, <<>>, pred, step)
  <2>1. \A i \in T : i # 0 => pred[i] \in T /\ m[pred[i]] < m[i]
    BY <1>3, <1>4
  <2>2. \A i \in T : i # 0 => \A v \in V : step[i][v] \in V
    BY <1>3, <1>5
  <2>3. QED
    BY <1>3, <1>6, <2>1, <2>2 DEF Descends
<1>8. PICK f \in [T -> V] : \A i \in T : f[i] = Unfold(<<>>, pred, step, f, i)
  BY <1>7, Recursion
<1>9. ASSUME NEW i \in T PROVE f[i] = IF i = 0 THEN <<>> ELSE x(i) \o f[i - 1]
  <2>1. CASE i = 0
    BY <1>8, <2>1 DEF Unfold
  <2>2. CASE i # 0
    <3>1. f[i - 1] \in V
      BY <1>4, <1>8, <2>2
    <3>2. f[i] = step[i][f[pred[i]]]
      BY <1>8, <2>2, Zenon DEF Unfold
    <3>3. pred[i] = i - 1 /\ \A v \in V : step[i][v] = x(i) \o v
      BY <1>3
    <3>4. QED
      BY <2>2, <3>1, <3>2, <3>3, Zenon
  <2>3. QED
    BY <2>1, <2>2
<1>10. f = [i \in T |-> IF i = 0 THEN <<>> ELSE x(i) \o f[i - 1]]
  BY <1>8, <1>9
<1>11. PICK w : w = TextsFrom(s)
  OBVIOUS
<1>12. w = [i \in T |-> IF i = 0 THEN <<>> ELSE x(i) \o w[i - 1]]
  <2>1. \E g : g = [i \in 0 .. Len(s) |->
                      IF i = 0 THEN <<>> ELSE s[(Len(s) - i) + 1].text \o g[i - 1]]
    BY <1>1, <1>10, Zenon DEF T, x
  <2>2. w = [i \in 0 .. Len(s) |->
                      IF i = 0 THEN <<>> ELSE s[(Len(s) - i) + 1].text \o w[i - 1]]
    BY <1>11, <2>1, Zenon DEF TextsFrom
  <2>3. QED
    BY <1>1, <2>2, Zenon DEF T, x
<1>13. \A i \in T : w[i] = IF i = 0 THEN <<>> ELSE x(i) \o w[i - 1]
  BY <1>12, Zenon
<1> DEFINE G == {i \in T : w[i] \in V}
<1>14. \A i \in T : i \in G
  <2>1. \A i \in T : i = 0 \/ pred[i] \in G => i \in G
    <3> SUFFICES ASSUME NEW i \in T, i = 0 \/ w[i - 1] \in V PROVE w[i] \in V
      BY <1>3
    <3>1. CASE i = 0
      BY <1>6, <1>13, <3>1
    <3>2. CASE i # 0
      <4>1. w[i] = x(i) \o w[i - 1]
        BY <1>13, <3>2
      <4>2. QED
        BY <1>5, <3>2, <4>1
    <3>3. QED
      BY <3>1, <3>2
  <2>2. m \in [T -> Nat] /\ \A i \in T : i # 0 => pred[i] \in T /\ m[pred[i]] < m[i]
    BY <1>7 DEF Descends
  <2> HIDE DEF G
  <2>3. Inherited(T, G, m, pred)
    BY <2>1, <2>2 DEF Inherited
  <2>4. QED
    BY <2>3, Descent
<1>15. \A i \in T : w[i] \in V
  BY <1>14
<1>16. QED
  BY <1>1, <1>11, <1>13, <1>15 DEF T, V, x

LEMMA JoinedIs ==
  ASSUME NEW s \in Seq(Piece)
  PROVE  /\ Joined(s) \in Seq(Char)
         /\ s = <<>> => Joined(s) = <<>>
         /\ s # <<>> => Joined(s) = Head(s).text \o Joined(Tail(s))
<1>1. PICK n \in Nat : n = Len(s)
  OBVIOUS
<1>2. PICK v : v = TextsFrom(s)
  OBVIOUS
<1>3. /\ \A i \in 0 .. n : v[i] \in Seq(Char)
      /\ \A i \in 0 .. n : v[i] = IF i = 0 THEN <<>> ELSE s[(n - i) + 1].text \o v[i - 1]
      /\ Joined(s) = v[n]
  <2>1. \A i \in 0 .. Len(s) : v[i] \in Seq(Char)
    BY <1>2, TextsFromIs
  <2>2. \A i \in 0 .. Len(s) : v[i] = IF i = 0 THEN <<>> ELSE s[(Len(s) - i) + 1].text \o v[i - 1]
    BY <1>2, TextsFromIs
  <2>3. Joined(s) = v[Len(s)]
    BY <1>2 DEF Joined
  <2>4. QED
    BY <1>1, <2>1, <2>2, <2>3
<1>4. s = <<>> => Joined(s) = <<>>
  BY <1>1, <1>3, EmptySeq
<1>5. ASSUME s # <<>> PROVE Joined(s) = Head(s).text \o Joined(Tail(s))
  <2>1. PICK r \in Seq(Piece) : /\ r = Tail(s) /\ Len(r) = n - 1 /\ n >= 1
                                /\ \A i \in 1 .. n - 1 : r[i] = s[i + 1]
    <3>1. Tail(s) \in Seq(Piece) /\ Len(Tail(s)) = n - 1 /\ n >= 1 /\ \A i \in 1 .. n - 1 : Tail(s)[i] = s[i + 1]
      BY <1>1, <1>5, HeadTailProperties
    <3>2. QED
      BY <3>1, Zenon
  <2>2. PICK k \in Nat : k = n - 1 /\ k + 1 = n /\ Len(r) = k
    BY <2>1
  <2>3. PICK w : w = TextsFrom(r)
    OBVIOUS
  <2>4. \A i \in 0 .. Len(r) : w[i] = IF i = 0 THEN <<>> ELSE r[(Len(r) - i) + 1].text \o w[i - 1]
    BY <2>3, TextsFromIs
  <2>5. Joined(r) = w[Len(r)]
    BY <2>3 DEF Joined
  <2> DEFINE T == 0 .. k
             G == {i \in T : v[i] = w[i]}
             m == [i \in T |-> i]
             pred == [i \in T |-> i - 1]
  <2>6. \A i \in T : i \in G
    <3>1. \A i \in T : i # 0 => pred[i] \in T /\ m[pred[i]] < m[i]
      OBVIOUS
    <3>2. \A i \in T : i = 0 \/ pred[i] \in G => i \in G
      <4> SUFFICES ASSUME NEW i \in T, i = 0 \/ v[i - 1] = w[i - 1] PROVE v[i] = w[i]
        OBVIOUS
      <4>1. CASE i = 0
        BY <1>3, <2>2, <2>4, <4>1
      <4>2. CASE i # 0
        <5>1. PICK q \in 1 .. k : q = (k - i) + 1 /\ q + 1 = (n - i) + 1
          BY <2>2, <4>2
        <5>2. r[q] = s[q + 1]
          BY <2>1, <2>2, <5>1
        <5>3. v[i] = s[q + 1].text \o v[i - 1]
          <6>1. i \in 0 .. n
            BY <2>2
          <6>2. v[i] = s[(n - i) + 1].text \o v[i - 1]
            BY <1>3, <4>2, <6>1
          <6>3. QED
            BY <5>1, <6>2
        <5>4. w[i] = r[q].text \o w[i - 1]
          BY <2>2, <2>4, <4>2, <5>1
        <5>5. QED
          BY <4>2, <5>2, <5>3, <5>4
      <4>3. QED
        BY <4>1, <4>2
    <3>3. m \in [T -> Nat]
      OBVIOUS
    <3> HIDE DEF T, G, m, pred
    <3>4. Inherited(T, G, m, pred)
      BY <3>1, <3>2, <3>3 DEF Inherited
    <3>5. QED
      BY <3>4, Descent
  <2>7. v[k] = w[k]
    BY <2>6
  <2>8. v[n] = s[1].text \o v[k]
    <3>1. n \in 0 .. n /\ n # 0 /\ (n - n) + 1 = 1 /\ n - 1 = k
      BY <2>2
    <3>2. v[n] = s[(n - n) + 1].text \o v[n - 1]
      BY <1>3, <3>1
    <3>3. QED
      BY <3>1, <3>2
  <2>9. Head(s) = s[1]
    BY <1>5
  <2>10. QED
    BY <1>3, <2>1, <2>2, <2>5, <2>7, <2>8, <2>9
<1>6. QED
  BY <1>1, <1>3, <1>4, <1>5

\* The first piece and the others.
LEMMA JoinedCons ==
  ASSUME NEW s \in Seq(Char), NEW r \in Seq(Piece)
  PROVE  Joined(<<Puts(s)>> \o r) = s \o Joined(r)
<1>1. PICK c \in Piece : c = Puts(s) /\ c.text = s
  BY PieceIs
<1>2. PICK one \in Seq(Piece) : one = <<c>> /\ Len(one) = 1 /\ one[1] = c
  <2>1. <<c>> \in Seq(Piece) /\ Len(<<c>>) = 1 /\ <<c>>[1] = c
    OBVIOUS
  <2>2. QED
    BY <2>1, Zenon
<1>3. PICK w \in Seq(Piece) : w = one \o r
  BY ConcatProperties
<1>4. PICK k \in Nat : k = Len(r)
  OBVIOUS
<1>5. Len(w) = k + 1 /\ w[1] = c /\ \A i \in 1 .. k : w[i + 1] = r[i]
  BY <1>2, <1>3, <1>4, ConcatProperties
<1>6. w # <<>> /\ Head(w) = c
  BY <1>5
<1>7. Tail(w) \in Seq(Piece) /\ Len(Tail(w)) = k /\ \A i \in 1 .. k : Tail(w)[i] = w[i + 1]
  BY <1>5, <1>6, HeadTailProperties
<1>8. Tail(w) = r
  BY <1>4, <1>5, <1>7, SeqEqual
<1>9. Joined(w) = c.text \o Joined(r)
  BY <1>6, <1>8, JoinedIs
<1>10. QED
  BY <1>1, <1>2, <1>3, <1>9, Zenon

LEMMA Associative ==
  ASSUME NEW a \in Seq(Char), NEW b \in Seq(Char), NEW c \in Seq(Char)
  PROVE  /\ (a \o b) \o c = a \o (b \o c)
         /\ a \o <<>> = a /\ <<>> \o a = a
         /\ a \o b \in Seq(Char)
BY ConcatAssociative, ConcatEmptySeq, ConcatProperties

\* The two ways to move a text across a join.
Regroups(a, b, c) == (a \o b) \o c = a \o (b \o c)
Carries(l, f, s, x, r) ==
  /\ (l \o (f \o s)) \o r = (l \o f) \o (s \o r)
  /\ (l \o (f \o s)) \o (x \o r) = (l \o f) \o ((s \o x) \o r)
  /\ <<>> \o r = r /\ <<>> \o (s \o r) = s \o r

LEMMA Regrouped == \A a, b, c \in Seq(Char) : Regroups(a, b, c)
<1> TAKE a, b, c \in Seq(Char)
<1>1. (a \o b) \o c = a \o (b \o c)
  BY Associative
<1>2. QED
  BY <1>1 DEF Regroups

LEMMA Carriage == \A l, f, s, x, r \in Seq(Char) : Carries(l, f, s, x, r)
<1> TAKE l, f, s, x, r \in Seq(Char)
<1>1. PICK lf \in Seq(Char) : lf = l \o f
  BY ConcatProperties
<1>2. PICK xr \in Seq(Char) : xr = x \o r
  BY ConcatProperties
<1>3. PICK sr \in Seq(Char) : sr = s \o r
  BY ConcatProperties
<1>4. Regroups(l, f, s) /\ Regroups(lf, s, r) /\ Regroups(lf, s, xr) /\ Regroups(s, x, r)
  BY Regrouped
<1>5. /\ (l \o f) \o s = l \o (f \o s) /\ (lf \o s) \o r = lf \o (s \o r)
      /\ (lf \o s) \o xr = lf \o (s \o xr) /\ (s \o x) \o r = s \o (x \o r)
  BY <1>4, Zenon DEF Regroups
<1>6. <<>> \o r = r /\ <<>> \o sr = sr
  BY ConcatEmptySeq
<1>7. (l \o (f \o s)) \o r = (l \o f) \o (s \o r)
  BY <1>1, <1>5, Zenon
<1>8. (l \o (f \o s)) \o (x \o r) = (l \o f) \o ((s \o x) \o r)
  BY <1>1, <1>2, <1>5, Zenon
<1>9. <<>> \o r = r /\ <<>> \o (s \o r) = s \o r
  BY <1>3, <1>6, Zenon
<1>10. QED
  BY <1>7, <1>8, <1>9, Zenon DEF Carries

\* What t has not yet sent of its pieces: the one whose answer it waits for is out.
Unsent(t) == IF at[t] = "ack" THEN Tail(job[t]) ELSE job[t]

\* Task t prints alone: what has gone out, what is in the transmit FIFO, in its
\* frame and in the pieces left is what it has been given.
InOrder(t) ==
  /\ format \in Formats /\ ~overlapped
  /\ \A u \in Printers \ {t} : job[u] = <<>> /\ ~InCall(u)
  /\ at[t] \in {"poll", "level", "send", "ack"} => temp[t] = <<>>
  /\ at[t] = "ack" => job[t] # <<>>
  /\ (line \o txfifo) \o (temp[t] \o Joined(Unsent(t))) = Joined(uart_printf(format))

OrderKept == Alone => \E t \in Printers : InOrder(t)

LEMMA InitOrder == ConsoleInit => OrderKept
<1> SUFFICES ASSUME ConsoleInit, Alone PROVE \E t \in Printers : InOrder(t)
  BY DEF OrderKept
<1>1. PICK t \in Printers, f \in Formats :
        job = [u \in Printers |-> IF u = t THEN uart_printf(f) ELSE <<>>] /\ format = f
  BY DEF ConsoleInit, Alone
<1>2. /\ \A u \in Printers : at[u] = "poll" /\ temp[u] = <<>>
      /\ txfifo = <<>> /\ line = <<>> /\ overlapped = FALSE
  BY DEF ConsoleInit
<1>3. job[t] = uart_printf(f) /\ \A u \in Printers \ {t} : job[u] = <<>> /\ ~InCall(u)
  BY <1>1, <1>2 DEF InCall
<1>4. PICK a \in Seq(Char) : a = Joined(uart_printf(f))
  BY FormatTyped, JoinedIs DEF OfPieces
<1>5. (<<>> \o <<>>) \o (<<>> \o a) = a
  <2>1. PICK e \in Seq(Char) : e = <<>>
    BY EmptySeq
  <2>2. e \o e = e /\ e \o a = a
    BY <2>1, Associative
  <2>3. QED
    BY <2>1, <2>2
<1>6. Unsent(t) = uart_printf(f)
  BY <1>2, <1>3 DEF Unsent
<1>7. (line \o txfifo) \o (temp[t] \o Joined(Unsent(t))) = Joined(uart_printf(format))
  BY <1>1, <1>2, <1>4, <1>5, <1>6
<1>8. InOrder(t)
  BY <1>1, <1>2, <1>3, <1>7 DEF InOrder
<1>9. QED
  BY <1>8

\* A step of the task that prints alone that sends what it takes.
LEMMA OrderStep ==
  ASSUME ConsoleInvariant, NEW t \in Printers, InOrder(t), NEW p, NEW j, NEW x,
         StepOf(t, p, j, x), format' = format, ~overlapped',
         p \in {"poll", "level", "send", "ack"} => x = <<>>, p = "ack" => j # <<>>,
         (line' \o txfifo') \o (x \o Joined(IF p = "ack" THEN Tail(j) ELSE j))
           = (line \o txfifo) \o (temp[t] \o Joined(Unsent(t)))
  PROVE  InOrder(t)'
<1>1. /\ \A u \in Printers : job'[u] = IF u = t THEN j ELSE job[u]
      /\ \A u \in Printers : at'[u] = IF u = t THEN p ELSE at[u]
      /\ \A u \in Printers : temp'[u] = IF u = t THEN x ELSE temp[u]
  BY DEF ConsoleInvariant, ConsoleTyped, StepOf
<1>2. Unsent(t)' = IF p = "ack" THEN Tail(j) ELSE j
  BY <1>1 DEF Unsent
<1>3. \A u \in Printers \ {t} : job'[u] = <<>> /\ ~InCall(u)'
  BY <1>1 DEF InOrder, InCall
<1>4. (line' \o txfifo') \o (temp'[t] \o Joined(Unsent(t)')) = Joined(uart_printf(format'))
  BY <1>1, <1>2 DEF InOrder
<1>5. QED
  BY <1>1, <1>3, <1>4 DEF InOrder

LEMMA OnlyOne ==
  ASSUME ConsoleInvariant, NEW t \in Printers, InOrder(t), NEW u \in Printers, Step(u)
  PROVE  u = t
<1> SUFFICES ASSUME u # t PROVE FALSE
  OBVIOUS
<1>1. job[u] = <<>> /\ at[u] = "poll"
  BY DEF InOrder, InCall
<1>2. QED
  BY <1>1 DEF Step, ask_level, uart_putc_level, uart_putc_send, uart_putc_ack,
              uart_puts_level, spi_send_recv_write, spi_send_recv_read

\* An access of the bus overlaps no call of another task.
LEMMA OnlyCall ==
  ASSUME NEW t \in Printers, InOrder(t), NEW a, BusWrite(t, a)
  PROVE  ~overlapped'
BY DEF InOrder, BusWrite

\* The types of all that is joined.
LEMMA JoinedTypes ==
  ASSUME ConsoleInvariant, NEW t \in Printers
  PROVE  /\ temp[t] \in Seq(Char) /\ line \in Seq(Char) /\ txfifo \in Seq(Char)
         /\ line \o txfifo \in Seq(Char)
         /\ Joined(job[t]) \in Seq(Char)
         /\ job[t] = <<>> => Joined(job[t]) = <<>>
         /\ job[t] # <<>> => /\ Joined(Tail(job[t])) \in Seq(Char) /\ Text(t) \in Seq(Char)
                             /\ Tail(job[t]) \in Seq(Piece)
                             /\ Joined(job[t]) = Text(t) \o Joined(Tail(job[t]))
<1>1. job[t] \in Seq(Piece) /\ temp[t] \in Seq(Char) /\ line \in Seq(Char) /\ txfifo \in Seq(Char)
  BY Types DEF OfPieces
<1>2. line \o txfifo \in Seq(Char)
  BY <1>1, ConcatProperties
<1>3. ASSUME job[t] # <<>>
      PROVE  /\ Joined(Tail(job[t])) \in Seq(Char) /\ Text(t) \in Seq(Char)
             /\ Tail(job[t]) \in Seq(Piece)
             /\ Joined(job[t]) = Text(t) \o Joined(Tail(job[t]))
  <2>1. Tail(job[t]) \in Seq(Piece) /\ Text(t) \in Seq(Char)
    BY <1>3, CallIs DEF OfPieces
  <2>2. QED
    BY <1>1, <1>3, <2>1, JoinedIs DEF Text
<1>4. QED
  BY <1>1, <1>2, <1>3, JoinedIs

LEMMA OrderAsk ==
  ASSUME ConsoleInvariant, NEW t \in Printers, InOrder(t), ask_level(t)
  PROVE  InOrder(t)'
<1>1. /\ at[t] = "poll" /\ BusWrite(t, FIFO - Len(txfifo)) /\ at' = [at EXCEPT ![t] = "level"]
      /\ job' = job /\ temp' = temp /\ txfifo' = txfifo /\ line' = line /\ format' = format
  BY DEF ask_level, Goto
<1>2. StepOf(t, "level", job[t], temp[t])
  BY <1>1, Unmoved DEF StepOf
<1>3. ~overlapped'
  BY <1>1, OnlyCall
<1>4. Unsent(t) = job[t] /\ temp[t] = <<>>
  BY <1>1 DEF Unsent, InOrder
<1>5. QED
  BY <1>1, <1>2, <1>3, <1>4, OrderStep

LEMMA OrderPutcLevel ==
  ASSUME ConsoleInvariant, NEW t \in Printers, InOrder(t), uart_putc_level(t)
  PROVE  InOrder(t)'
<1>1. PICK p : /\ p = IF Head(rx) # 0 THEN "send" ELSE "poll"
               /\ at[t] = "level" /\ at' = [at EXCEPT ![t] = p]
               /\ job' = job /\ temp' = temp /\ txfifo' = txfifo /\ line' = line
               /\ format' = format /\ overlapped' = overlapped
  BY DEF uart_putc_level, uart_putc_ready, Goto
<1>2. StepOf(t, p, job[t], temp[t])
  BY <1>1, Unmoved DEF StepOf
<1>3. ~overlapped'
  BY <1>1 DEF InOrder
<1>4. Unsent(t) = job[t] /\ temp[t] = <<>>
  BY <1>1 DEF Unsent, InOrder
<1>5. p # "ack"
  BY <1>1
<1>6. QED
  BY <1>1, <1>2, <1>3, <1>4, <1>5, OrderStep

LEMMA OrderPutcSend ==
  ASSUME ConsoleInvariant, NEW t \in Printers, InOrder(t), uart_putc_send(t)
  PROVE  InOrder(t)'
<1>1. /\ job[t] # <<>> /\ How(t) = "putc" /\ at[t] = "send" /\ WriteTHR(Text(t))
      /\ at' = [at EXCEPT ![t] = "ack"] /\ job' = job /\ temp' = temp /\ line' = line
      /\ format' = format
  BY DEF uart_putc_send, Goto
<1>2. PICK g : BusWrite(t, g)
  BY DEF uart_putc_send
<1>3. ~overlapped'
  BY <1>2, OnlyCall
<1>4. PICK s \in Seq(Char) : s = Text(t) /\ Len(s) = 1
  BY <1>1, CallIs
<1>5. Len(txfifo) < FIFO
  BY <1>1, AloneIs DEF Holds, InOrder
<1>6. txfifo' = txfifo \o s
  <2>1. Len(txfifo) + Len(s) <= FIFO
    BY <1>4, <1>5, Types, ConsoleConstants
  <2>2. QED
    BY <1>1, <1>4, <2>1, WriteTHRIs
<1>7. StepOf(t, "ack", job[t], temp[t])
  BY <1>1, Unmoved DEF StepOf
<1>8. Unsent(t) = job[t] /\ temp[t] = <<>>
  BY <1>1 DEF Unsent, InOrder
<1>9. PICK l \in Seq(Char), f \in Seq(Char), r \in Seq(Char) :
        l = line /\ f = txfifo /\ r = Joined(Tail(job[t])) /\ Joined(job[t]) = s \o r
  BY <1>1, <1>4, JoinedTypes
<1>10. Carries(l, f, s, s, r)
  BY Carriage
<1>11. /\ (l \o (f \o s)) \o r = (l \o f) \o (s \o r)
       /\ <<>> \o r = r /\ <<>> \o (s \o r) = s \o r
  BY <1>10, Zenon DEF Carries
<1>12. (line' \o txfifo') \o (temp[t] \o Joined(Tail(job[t])))
         = (line \o txfifo) \o (temp[t] \o Joined(Unsent(t)))
  BY <1>1, <1>6, <1>8, <1>9, <1>10, <1>11
<1>13. QED
  BY <1>1, <1>3, <1>7, <1>8, <1>12, OrderStep

LEMMA OrderPutcAck ==
  ASSUME ConsoleInvariant, NEW t \in Printers, InOrder(t), uart_putc_ack(t)
  PROVE  InOrder(t)'
<1>1. /\ at[t] = "ack" /\ at' = [at EXCEPT ![t] = "poll"]
      /\ job' = [job EXCEPT ![t] = Tail(job[t])]
      /\ temp' = temp /\ txfifo' = txfifo /\ line' = line
      /\ format' = format /\ overlapped' = overlapped
  BY DEF uart_putc_ack, Goto
<1>2. StepOf(t, "poll", Tail(job[t]), temp[t])
  BY <1>1, Unmoved DEF StepOf
<1>3. ~overlapped'
  BY <1>1 DEF InOrder
<1>4. Unsent(t) = Tail(job[t]) /\ temp[t] = <<>>
  BY <1>1 DEF Unsent, InOrder
<1>5. QED
  BY <1>1, <1>2, <1>3, <1>4, OrderStep

LEMMA OrderPutsLevel ==
  ASSUME ConsoleInvariant, NEW t \in Printers, InOrder(t), uart_puts_level(t)
  PROVE  InOrder(t)'
<1> DEFINE j == <<Puts(Rest(t))>> \o Tail(job[t])
<1>1. /\ job[t] # <<>> /\ at[t] = "level" /\ rx # <<>>
      /\ job' = [job EXCEPT ![t] = j] /\ at' = [at EXCEPT ![t] = "header"]
      /\ temp' = [temp EXCEPT ![t] = Frame(t)]
      /\ txfifo' = txfifo /\ line' = line /\ overlapped' = overlapped /\ format' = format
  BY DEF uart_puts_level, Goto, Frame, Rest, Taken
<1>2. StepOf(t, "header", j, Frame(t))
  BY <1>1 DEF StepOf
<1>3. ~overlapped'
  BY <1>1 DEF InOrder
<1>4. Unsent(t) = job[t] /\ temp[t] = <<>>
  BY <1>1 DEF Unsent, InOrder
<1>5. PICK x \in Seq(Char), y \in Seq(Char), r \in Seq(Char) :
        /\ x = Frame(t) /\ y = Rest(t) /\ r = Joined(Tail(job[t])) /\ x \o y = Text(t)
        /\ Joined(job[t]) = (x \o y) \o r /\ Joined(j) = y \o r
  <2>1. /\ Frame(t) \in Seq(Char) /\ Rest(t) \in Seq(Char) /\ Frame(t) \o Rest(t) = Text(t)
        /\ Joined(Tail(job[t])) \in Seq(Char) /\ Tail(job[t]) \in Seq(Piece)
        /\ Joined(job[t]) = Text(t) \o Joined(Tail(job[t]))
    BY <1>1, TakenIs, JoinedTypes
  <2>2. Joined(j) = Rest(t) \o Joined(Tail(job[t]))
    BY <2>1, JoinedCons
  <2> HIDE DEF j
  <2>3. QED
    BY <2>1, <2>2, Zenon
<1> HIDE DEF j
<1>6. x \o (y \o r) = (x \o y) \o r /\ <<>> \o ((x \o y) \o r) = (x \o y) \o r
  <2>1. Regroups(x, y, r) /\ x \o y \in Seq(Char)
    BY Regrouped, ConcatProperties
  <2>2. PICK xy \in Seq(Char) : xy = x \o y
    BY <2>1
  <2>3. Carries(x, y, xy, y, r)
    BY Carriage
  <2>4. <<>> \o (xy \o r) = xy \o r
    BY <2>3, Zenon DEF Carries
  <2>5. (x \o y) \o r = x \o (y \o r)
    BY <2>1, Zenon DEF Regroups
  <2>6. QED
    BY <2>2, <2>4, <2>5, Zenon
<1>7. (line' \o txfifo') \o (Frame(t) \o Joined(j)) = (line \o txfifo) \o (temp[t] \o Joined(Unsent(t)))
  BY <1>1, <1>4, <1>5, <1>6
<1>8. QED
  BY <1>1, <1>2, <1>3, <1>7, OrderStep

LEMMA OrderWrite ==
  ASSUME ConsoleInvariant, NEW t \in Printers, InOrder(t), spi_send_recv_write(t)
  PROVE  InOrder(t)'
<1>1. PICK s \in Seq(Char), x \in Seq(Char) :
        /\ s = SubSeq(temp[t], 1, Carried(t)) /\ x = SubSeq(temp[t], Carried(t) + 1, Len(temp[t]))
        /\ Len(s) + Len(x) = Len(temp[t]) /\ s \o x = temp[t] /\ Len(s) \in Nat /\ Len(x) \in Nat
  BY CarriedIs
<1>2. /\ at[t] \in {"header", "more"} /\ WriteTHR(s)
      /\ at' = [at EXCEPT ![t] = "answer"] /\ temp' = [temp EXCEPT ![t] = x]
      /\ job' = job /\ line' = line /\ format' = format
  BY <1>1 DEF spi_send_recv_write, Goto, Carried
<1>3. PICK g : BusWrite(t, g)
  BY DEF spi_send_recv_write
<1>4. ~overlapped'
  BY <1>3, OnlyCall
<1>5. StepOf(t, "answer", job[t], x)
  BY <1>2, Unmoved DEF StepOf
<1>6. txfifo' = txfifo \o s
  <2>1. Len(temp[t]) + Len(txfifo) <= FIFO
    BY <1>2, AloneIs DEF Holds, InOrder
  <2>2. Len(txfifo) \in Nat
    BY Types
  <2>3. Len(temp[t]) \in Nat /\ Len(s) <= Len(temp[t])
    BY <1>1
  <2>4. Len(txfifo) + Len(s) <= FIFO
    BY <1>1, <2>1, <2>2, <2>3, ConsoleConstants
  <2>5. QED
    BY <1>2, <2>4, WriteTHRIs
<1>7. PICK l \in Seq(Char), f \in Seq(Char), r \in Seq(Char) :
        l = line /\ f = txfifo /\ r = Joined(job[t])
  BY JoinedTypes
<1>8. (l \o (f \o s)) \o (x \o r) = (l \o f) \o ((s \o x) \o r)
  <2>1. Carries(l, f, s, x, r)
    BY Carriage
  <2>2. QED
    BY <2>1, Zenon DEF Carries
<1>9. Unsent(t) = job[t]
  BY <1>2 DEF Unsent
<1>10. (line' \o txfifo') \o (x \o Joined(job[t])) = (line \o txfifo) \o (temp[t] \o Joined(Unsent(t)))
  BY <1>1, <1>2, <1>6, <1>7, <1>8, <1>9
<1>11. QED
  BY <1>2, <1>4, <1>5, <1>10, OrderStep

LEMMA OrderRead ==
  ASSUME ConsoleInvariant, NEW t \in Printers, InOrder(t), spi_send_recv_read(t)
  PROVE  InOrder(t)'
<1>1. /\ at[t] = "answer" /\ temp' = temp /\ txfifo' = txfifo /\ line' = line
      /\ overlapped' = overlapped /\ format' = format
  BY DEF spi_send_recv_read
<1>2. job[t] # <<>> /\ ~overlapped' /\ Unsent(t) = job[t]
  BY <1>1, Types DEF InOrder, Unsent
<1>3. CASE temp[t] # <<>>
  <2>1. at' = [at EXCEPT ![t] = "more"] /\ job' = job
    BY <1>3 DEF spi_send_recv_read, Goto
  <2>2. StepOf(t, "more", job[t], temp[t])
    BY <1>1, <2>1, Unmoved DEF StepOf
  <2>3. QED
    BY <1>1, <1>2, <2>2, OrderStep
<1>4. CASE temp[t] = <<>>
  <2>1. /\ at' = [at EXCEPT ![t] = "poll"]
        /\ job' = IF Text(t) = <<>> THEN [job EXCEPT ![t] = Tail(job[t])] ELSE job
    BY <1>4 DEF spi_send_recv_read, uart_puts_done, Goto
  <2>2. CASE Text(t) = <<>>
    <3>1. StepOf(t, "poll", Tail(job[t]), temp[t])
      BY <1>1, <2>1, <2>2, Unmoved DEF StepOf
    <3>2. PICK r \in Seq(Char) : r = Joined(Tail(job[t])) /\ Joined(job[t]) = <<>> \o r
      BY <1>2, <2>2, JoinedTypes
    <3>3. <<>> \o r = r
      BY Associative
    <3>4. Joined(Tail(job[t])) = Joined(Unsent(t))
      BY <1>2, <3>2, <3>3
    <3>5. QED
      BY <1>1, <1>2, <1>4, <3>1, <3>4, OrderStep
  <2>3. CASE Text(t) # <<>>
    <3>1. StepOf(t, "poll", job[t], temp[t])
      BY <1>1, <2>1, <2>3, Unmoved DEF StepOf
    <3>2. QED
      BY <1>1, <1>2, <1>4, <3>1, OrderStep
  <2>4. QED
    BY <2>2, <2>3
<1>5. QED
  BY <1>3, <1>4

LEMMA OrderTransmit ==
  ASSUME ConsoleInvariant, NEW t \in Printers, InOrder(t), Transmit
  PROVE  InOrder(t)'
<1>1. PICK q \in Seq(Char) : q = txfifo /\ q # <<>>
  BY Types DEF Transmit
<1>2. PICK c \in Char, f \in Seq(Char) : c = Head(q) /\ f = Tail(q) /\ q = <<c>> \o f
  <2>1. Head(q) \in Char /\ Tail(q) \in Seq(Char) /\ q = <<Head(q)>> \o Tail(q)
    BY <1>1, HeadTailProperties
  <2>2. QED
    BY <2>1, Zenon
<1>3. /\ txfifo' = f /\ line' = Append(line, c)
      /\ UNCHANGED <<job, at, temp, format, overlapped>>
  BY <1>1, <1>2 DEF Transmit
<1>4. PICK l \in Seq(Char), one \in Seq(Char) : l = line /\ one = <<c>>
  <2>1. line \in Seq(Char) /\ <<c>> \in Seq(Char)
    BY Types
  <2>2. QED
    BY <2>1, Zenon
<1>5. line' = l \o one
  BY <1>3, <1>4, AppendIsConcat
<1>6. line' \o txfifo' = line \o txfifo
  <2>1. (l \o one) \o f = l \o (one \o f)
    <3>1. Regroups(l, one, f)
      BY Regrouped
    <3>2. QED
      BY <3>1, Zenon DEF Regroups
  <2>2. QED
    BY <1>1, <1>2, <1>3, <1>4, <1>5, <2>1, Zenon
<1>7. QED
  BY <1>3, <1>6 DEF InOrder, Unsent, InCall

LEMMA NextOrder == ConsoleInvariant /\ OrderKept /\ [ConsoleNext]_console => OrderKept'
<1> SUFFICES ASSUME ConsoleInvariant, OrderKept, [ConsoleNext]_console, Alone'
             PROVE  \E t \in Printers : InOrder(t)'
  BY DEF OrderKept
<1>1. format' = format
  BY DEF ConsoleNext, Step, Transmit, console, ask_level, uart_putc_level, uart_putc_send,
         uart_putc_ack, uart_puts_level, spi_send_recv_write, spi_send_recv_read
<1>2. PICK t \in Printers : InOrder(t)
  BY <1>1 DEF OrderKept, Alone
<1>3. CASE Transmit
  BY <1>2, <1>3, OrderTransmit
<1>4. ASSUME NEW u \in Printers, Step(u) PROVE InOrder(t)'
  <2>1. Step(t)
    BY <1>2, <1>4, OnlyOne
  <2>2. QED
    BY <1>2, <2>1, OrderAsk, OrderPutcLevel, OrderPutcSend, OrderPutcAck, OrderPutsLevel,
       OrderWrite, OrderRead DEF Step
<1>5. CASE UNCHANGED console
  BY <1>2, <1>5 DEF console, InOrder, Unsent, InCall
<1>6. QED
  BY <1>2, <1>3, <1>4, <1>5 DEF ConsoleNext

\* The line has a beginning of what the calls of uart_printf's format are given,
\* all of it in the end, and nothing is lost.
PrintedInOrder ==
  Alone => /\ ~lost
           /\ \E rest \in Seq(Char) : line \o rest = Joined(uart_printf(format))
           /\ Finished => line = Joined(uart_printf(format))

\* What a task prints alone goes out in order and complete, for every format,
\* every level of the transmit FIFO and every length of the buffer (uart_printf,
\* uart_putc, uart_puts, spi_send_recv).
THEOREM PrintsInOrder == ConsoleSpec => []PrintedInOrder
<1>1. ConsoleInvariant /\ OrderKept => PrintedInOrder
  <2> SUFFICES ASSUME ConsoleInvariant, OrderKept, Alone
               PROVE  /\ ~lost
                      /\ \E rest \in Seq(Char) : line \o rest = Joined(uart_printf(format))
                      /\ Finished => line = Joined(uart_printf(format))
    BY DEF PrintedInOrder
  <2>1. PICK t \in Printers : InOrder(t)
    BY DEF OrderKept
  <2>2. ~lost
    BY <2>1 DEF InOrder, ConsoleInvariant, OneCall
  <2>3. PICK l \in Seq(Char), f \in Seq(Char), x \in Seq(Char), y \in Seq(Char) :
          l = line /\ f = txfifo /\ x = temp[t] /\ y = Joined(Unsent(t))
    <3>1. Joined(Unsent(t)) \in Seq(Char)
      BY <2>1, JoinedTypes DEF Unsent, InOrder
    <3>2. QED
      BY <3>1, JoinedTypes
  <2>4. (l \o f) \o (x \o y) = l \o (f \o (x \o y)) /\ f \o (x \o y) \in Seq(Char)
    <3>1. PICK xy \in Seq(Char) : xy = x \o y
      BY ConcatProperties
    <3>2. Regroups(l, f, xy) /\ f \o xy \in Seq(Char)
      BY Regrouped, ConcatProperties
    <3>3. (l \o f) \o xy = l \o (f \o xy)
      BY <3>2, Zenon DEF Regroups
    <3>4. QED
      BY <3>1, <3>2, <3>3, Zenon
  <2>5. (l \o f) \o (x \o y) = Joined(uart_printf(format))
    BY <2>1, <2>3 DEF InOrder
  <2>6. ASSUME Finished PROVE line = Joined(uart_printf(format))
    <3>1. job[t] = <<>> /\ f = <<>>
      BY <2>3, <2>6 DEF Finished
    <3>2. at[t] \in {"poll", "level", "send"}
      BY <2>1, <3>1, Types DEF InOrder, Places
    <3>3. x = <<>>
      BY <2>1, <2>3, <3>2 DEF InOrder
    <3>4. y = <<>>
      BY <2>3, <3>1, <3>2, JoinedTypes DEF Unsent
    <3>5. (l \o f) \o (x \o y) = l
      BY <3>1, <3>3, <3>4, Associative
    <3>6. QED
      BY <2>3, <2>5, <3>5
  <2>7. QED
    BY <2>2, <2>3, <2>4, <2>5, <2>6
<1>2. ConsoleInvariant /\ [ConsoleNext]_console => ConsoleInvariant'
  BY NextConsole
<1>3. ConsoleInvariant /\ OrderKept /\ [ConsoleNext]_console => OrderKept'
  BY NextOrder
<1>4. QED
  BY InitConsole, InitOrder, <1>1, <1>2, <1>3, PTL DEF ConsoleSpec

=============================================================================
