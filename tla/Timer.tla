------------------------------- MODULE Timer -------------------------------
(***************************************************************************)
(* The system clock (timer.c) on the hardware timer it programs, and the   *)
(* idle task (tasks/idle.c) that sleeps between ticks and accounts for the *)
(* processor's time.                                                       *)
(*                                                                         *)
(* The hardware counts by itself, between any two accesses of the code, so *)
(* every access to a timer register is a step of its own; the code around  *)
(* it is not visible to the hardware.  The 64-bit count is read as two     *)
(* registers: CHI first, then CLO.  A match of CLO with the comparator     *)
(* raises the interrupt until the code clears it.  EL0 code runs with      *)
(* interrupts enabled, the kernel and the idle task's sleep without.       *)
(*                                                                         *)
(* The code's u64 times are integers here: a time 2^32 too small, which a  *)
(* torn read gives, may be negative where the code's wraps around.         *)
(***************************************************************************)
EXTENDS Integers

CONSTANTS
  W,               \* values of a 32-bit register: 2^32
  INTERVAL,        \* TICK_TIME
  REPORT_PERIOD,   \* idle periods between two reports of the idle task
  MAXTIME          \* bound of the model: the count stops there

ASSUME TimerAssumption ==
  /\ W \in Nat /\ INTERVAL \in Nat /\ REPORT_PERIOD \in Nat /\ MAXTIME \in Nat
  /\ 0 < INTERVAL /\ 2 * INTERVAL < W /\ 0 < REPORT_PERIOD

VARIABLES
  now, C, match,                         \* the count, comparator 1 and bit 1 of CS
  boot_time, next_tick_time, tick_count, \* sys_clocks[1]
  hi,                                    \* CHI as the read in progress found it
  pc,                                    \* where the processor is
  idle_ready, idle_count,                \* the idle task: has run idle_setup; its
                                         \* count, modulo REPORT_PERIOD
  execution_time, last_exit_time,
  torn, stale, busy                      \* history: the kinds of reads that were
                                         \* torn; an interrupt pending at boot; time
                                         \* outside the sleeps since the last report

hardware == <<now, C, match>>
clock == <<boot_time, next_tick_time, tick_count>>
idleVars == <<idle_ready, idle_count, execution_time, last_exit_time>>
vars == <<hardware, clock, hi, pc, idleVars, torn, stale, busy>>

CLO == now % W
CHI == now \div W

\* From the idle task's read of enter_time to its read of last_exit_time.
Sleeping == {"report", "wfi", "exit_hi", "exit_lo"}
Booting == {"boot_hi", "boot_lo"}
Interrupt == {"irq_clear", "irq_set", "irq_hi", "irq_lo"}
Control == Booting \cup Interrupt \cup Sleeping
             \cup {"kernel", "user", "enter_hi", "enter_lo", "unmask", "halted"}

TypeOK ==
  /\ now \in 0 .. MAXTIME /\ C \in 0 .. W - 1 /\ match \in BOOLEAN
  /\ boot_time \in Int /\ next_tick_time \in Int /\ tick_count \in Nat
  /\ hi \in Nat /\ pc \in Control
  /\ idle_ready \in BOOLEAN /\ idle_count \in 0 .. REPORT_PERIOD - 1
  /\ execution_time \in Int /\ last_exit_time \in Int
  /\ torn \subseteq {"boot", "check", "idle"} /\ stale \in BOOLEAN /\ busy \in Nat

\* The board comes out of reset; the boot code may take any time.
Init ==
  /\ now = 0 /\ C = 0 /\ match = FALSE
  /\ boot_time = 0 /\ next_tick_time = 0 /\ tick_count = 0
  /\ hi = 0 /\ pc = "boot_hi"
  /\ idle_ready = FALSE /\ idle_count = 0
  /\ execution_time = 0 /\ last_exit_time = 0
  /\ torn = {} /\ stale = FALSE /\ busy = 0

-----------------------------------------------------------------------------
(* The hardware.                                                           *)

\* The count advances; the comparator only sees equality.
Count ==
  /\ now < MAXTIME
  /\ now' = now + 1
  /\ match' = (match \/ now' % W = C)
  /\ busy' = IF pc \in Booting \cup Sleeping THEN busy ELSE busy + 1
  /\ UNCHANGED <<C, clock, hi, pc, idleVars, torn, stale>>

\* The interrupt is taken as soon as EL0 code runs unmasked.
TakeInterrupt ==
  /\ pc = "user" /\ match
  /\ pc' = "irq_clear"
  /\ UNCHANGED <<hardware, clock, hi, idleVars, torn, stale, busy>>

-----------------------------------------------------------------------------
(* Reading the count.                                                      *)

\* The first half of sys_timer_full_count.
ReadHi(from, to) ==
  /\ pc = from
  /\ hi' = CHI
  /\ pc' = to

\* What sys_timer_full_count returns when it reads CLO.
sys_timer_full_count == hi * W + CLO

\* The second half; the read was torn if a carry went by in between.
ReadLo(kind) ==
  /\ torn' = IF hi = CHI THEN torn ELSE torn \cup {kind}
  /\ hi' = 0

-----------------------------------------------------------------------------
(* The system clock.                                                       *)

\* A match that is already pending is not cleared.
sys_clock_init ==
  /\ pc = "boot_lo"
  /\ ReadLo("boot")
  /\ boot_time' = sys_timer_full_count
  /\ tick_count' = 0
  /\ next_tick_time' = boot_time' + INTERVAL
  /\ C' = next_tick_time' % W
  /\ stale' = match
  /\ pc' = "user"
  /\ UNCHANGED <<now, match, idleVars, busy>>

sys_timer_clear_match ==
  /\ pc = "irq_clear"
  /\ match' = FALSE
  /\ pc' = "irq_set"
  /\ UNCHANGED <<now, C, clock, hi, idleVars, torn, stale, busy>>

\* Faulty variant: the next tick time stays.
NextTickTime_same == next_tick_time

NextTickTime == next_tick_time + INTERVAL

\* sys_clock_notify_tick up to sys_timer_set_comparator.
sys_clock_notify_tick ==
  /\ pc = "irq_set"
  /\ tick_count' = tick_count + 1
  /\ next_tick_time' = NextTickTime
  /\ C' = next_tick_time' % W
  /\ pc' = "irq_hi"
  /\ UNCHANGED <<now, match, boot_time, hi, idleVars, torn, stale, busy>>

\* Faulty variant: a tick time that has come is not missed.
TickMissed_never == FALSE

TickMissed == next_tick_time <= sys_timer_full_count

\* Its assertion; exit_all waits for ever.
sys_clock_check ==
  /\ pc = "irq_lo"
  /\ ReadLo("check")
  /\ pc' = IF TickMissed THEN "halted" ELSE "kernel"
  /\ UNCHANGED <<hardware, clock, idleVars, stale, busy>>

-----------------------------------------------------------------------------
(* The idle task and everything else that runs.                            *)

\* A task makes a system call; the kernel returns to a task.
SystemCall ==
  /\ pc = "user" /\ pc' = "kernel"
  /\ UNCHANGED <<hardware, clock, hi, idleVars, torn, stale, busy>>

Activate ==
  /\ pc = "kernel" /\ pc' = "user"
  /\ UNCHANGED <<hardware, clock, hi, idleVars, torn, stale, busy>>

idle_setup ==
  /\ pc = "user" /\ ~idle_ready
  /\ idle_ready' = TRUE
  /\ idle_count' = 0
  /\ last_exit_time' = boot_time
  /\ UNCHANGED <<hardware, clock, hi, pc, execution_time, torn, stale, busy>>

\* The loop starts again: el_disable_interrupt.
idle ==
  /\ pc = "user" /\ idle_ready
  /\ pc' = "enter_hi"
  /\ UNCHANGED <<hardware, clock, hi, idleVars, torn, stale, busy>>

\* enter_time - last_exit_time
BusyPeriod == sys_timer_full_count - last_exit_time

idle_after_enter ==
  /\ pc = "enter_lo"
  /\ ReadLo("idle")
  /\ execution_time' = execution_time + BusyPeriod
  /\ pc' = IF idle_count = 0 THEN "report" ELSE "wfi"
  /\ idle_count' = (idle_count + 1) % REPORT_PERIOD
  /\ UNCHANGED <<hardware, clock, idle_ready, last_exit_time, stale, busy>>

\* Every REPORT_PERIOD sleeps the share of busy time is printed and the sum
\* starts again.
idle_report ==
  /\ pc = "report"
  /\ execution_time' = 0
  /\ busy' = 0
  /\ pc' = "wfi"
  /\ UNCHANGED <<hardware, clock, hi, idle_ready, idle_count, last_exit_time, torn, stale>>

\* wfi returns when an interrupt is pending, although it is masked.
power_standby ==
  /\ pc = "wfi" /\ match
  /\ pc' = "exit_hi"
  /\ UNCHANGED <<hardware, clock, hi, idleVars, torn, stale, busy>>

\* Faulty variant: the time of the exit is not taken.
idle_before_exit_unread ==
  /\ pc = "exit_lo"
  /\ pc' = "unmask"
  /\ UNCHANGED <<hardware, clock, hi, idleVars, torn, stale, busy>>

idle_before_exit ==
  /\ pc = "exit_lo"
  /\ ReadLo("idle")
  /\ last_exit_time' = sys_timer_full_count
  /\ pc' = "unmask"
  /\ UNCHANGED <<hardware, clock, idle_ready, idle_count, execution_time, stale, busy>>

\* Faulty variant: the loop goes on with interrupts masked.
el_enable_interrupt_not ==
  /\ pc = "unmask"
  /\ pc' = "enter_hi"
  /\ UNCHANGED <<hardware, clock, hi, idleVars, torn, stale, busy>>

el_enable_interrupt ==
  /\ pc = "unmask"
  /\ pc' = "user"
  /\ UNCHANGED <<hardware, clock, hi, idleVars, torn, stale, busy>>

FirstHalf ==
  /\ \/ ReadHi("boot_hi", "boot_lo") \/ ReadHi("irq_hi", "irq_lo")
     \/ ReadHi("enter_hi", "enter_lo") \/ ReadHi("exit_hi", "exit_lo")
  /\ UNCHANGED <<hardware, clock, idleVars, torn, stale, busy>>

\* What the processor does once it is in code that cannot be interrupted.
Masked ==
  \/ FirstHalf \/ sys_clock_init
  \/ sys_timer_clear_match \/ sys_clock_notify_tick \/ sys_clock_check \/ Activate
  \/ idle_after_enter \/ idle_report \/ power_standby
  \/ idle_before_exit \/ el_enable_interrupt

Next == Count \/ TakeInterrupt \/ Masked \/ SystemCall \/ idle_setup \/ idle

Spec == Init /\ [][Next]_vars

\* The count runs, masked code comes to its end, and an interrupt that is
\* pending whenever interrupts are enabled is taken.  Nothing makes EL0 code
\* enter the kernel or sleep.
FairSpec == Spec /\ WF_vars(Count) /\ WF_vars(Masked) /\ SF_vars(TakeInterrupt)

-----------------------------------------------------------------------------
\* The clock has been started from a whole reading, and every check of the
\* next tick time was one.
WholeReads == torn \cap {"boot", "check"} = {}
Running == pc \notin Booting \cup Interrupt \cup {"halted"}

\* Whenever no tick is pending the tick count is the number of whole intervals
\* since boot: no tick is lost, doubled or late by an interval, and no error
\* accumulates (sys_clock_notify_tick), unless a check was misled by a torn
\* read.  A match left over from before boot puts it ahead by one, no more.
TicksExact ==
  Running /\ ~match /\ WholeReads =>
    LET intervals == (now - boot_time) \div INTERVAL IN
    \/ tick_count = intervals
    \/ stale /\ tick_count = intervals + 1

\* The kernel stops with "A Tick is missed" only when it handles a tick so late
\* that the next one is due, or when the count read at boot was torn.
HaltOnlyWhenLate ==
  pc = "halted" /\ "boot" \notin torn =>
    now - boot_time >= (tick_count + 1) * INTERVAL

\* What the idle task has added up is the time spent outside its sleep since its
\* last report: interrupts enabled only after last_exit_time is read leave no
\* handler's time out.  A torn read shifts it by multiples of 2^32 only.
BusyTimeExact ==
  pc \in Sleeping =>
    /\ (execution_time - busy) % W = 0
    /\ torn \cap {"boot", "idle"} = {} => execution_time = busy

\* Ticks go on: a tick that is due is counted, or the kernel stops for being
\* late; in particular the idle task neither sleeps through it nor keeps it
\* masked.
TicksGoOn ==
  \A k \in 0 .. MAXTIME \div INTERVAL :
    Running /\ WholeReads /\ tick_count = k /\ next_tick_time <= MAXTIME
      ~> tick_count > k \/ pc = "halted"
=============================================================================
