------------------------------- MODULE SysTick -------------------------------
(***************************************************************************)
(* The millisecond tick and the blocking delay of the well_lid firmware.   *)
(*                                                                         *)
(* SysTick_Handler (n32l40x_it.c) increments the 32-bit uwTick from the    *)
(* interrupt; dri_systick_delay_ms (dri_Systick.c) runs in the foreground, *)
(* reads uwTick through the registered callback and spins on the unsigned  *)
(* difference.  The two interleave freely: a tick can arrive between any   *)
(* two foreground steps, at most PrintTicks of them while the foreground   *)
(* is inside a printf and at most PollTicks between two polls.             *)
(***************************************************************************)
EXTENDS Naturals

CONSTANTS
    TickMod,     \* number of values of the uint32_t tick, 2^32 in the code
    Requests,    \* the delays, in ms, the callers ask for
    PrintTicks,  \* most ticks during the printf after tickstart is read
    PollTicks    \* most ticks between two evaluations of the loop condition

VARIABLES
    uwTick,      \* the tick counter the interrupt increments
    pc,          \* where the foreground is inside dri_systick_delay_ms
    ms,          \* argument of the current call
    tickstart,   \* the tick read on entry
    wait,        \* ticks to wait for
    edges,       \* history: interrupts taken since tickstart was read
    lag          \* interrupts taken since the last foreground step

vars == <<uwTick, pc, ms, tickstart, wait, edges, lag>>

\* UINT32_MAX
MaxTick == TickMod - 1
Ticks == 0 .. MaxTick

\* uwTickFrequency of dri_config.h: one tick per millisecond
uwTickFrequency == 1

\* The number of ticks the delay waits for: one more than asked, because the
\* first period is already partly over, unless that addition would overflow.
WaitOf(m) == IF m < MaxTick THEN m + uwTickFrequency ELSE m

\* Unsigned subtraction and increment, modulo TickMod.
Minus(a, b) == IF b <= a THEN a - b ELSE (a + TickMod) - b
Succ(a) == IF a = MaxTick THEN 0 ELSE a + 1

Larger(a, b) == IF a < b THEN b ELSE a

ASSUME TickAssumption ==
    /\ TickMod \in Nat /\ TickMod > 1
    /\ Requests \subseteq Ticks
    /\ PrintTicks \in Nat
    /\ PollTicks \in Nat \ {0}
    /\ PrintTicks + PollTicks < TickMod
    /\ \A m \in Requests : WaitOf(m) + PollTicks <= TickMod

-----------------------------------------------------------------------------

\* The delay is called at any point of the counter's life.
Init ==
    /\ uwTick \in Ticks
    /\ pc = "idle"
    /\ ms = 0 /\ tickstart = 0 /\ wait = 0
    /\ edges = 0 /\ lag = 0

\* Ticks that can arrive before the foreground takes its next step.
LagBound == IF pc = "print" THEN PrintTicks ELSE PollTicks

\* The interrupt: uwTick++.
SysTick_Handler ==
    /\ lag < LagBound
    /\ uwTick' = Succ(uwTick)
    /\ lag' = IF pc \in {"print", "waiting"} THEN lag + 1 ELSE 0
    /\ edges' = IF pc \in {"print", "waiting"} THEN edges + 1 ELSE 0
    /\ UNCHANGED <<pc, ms, tickstart, wait>>

\* dri_systick_delay_ms(m) is called and prints "start delay".
DelayCall(m) ==
    /\ pc = "idle"
    /\ pc' = "called"
    /\ ms' = m
    /\ lag' = 0
    /\ UNCHANGED <<uwTick, tickstart, wait, edges>>

\* tickstart = dri_systick_get_tick()
DelayStart ==
    /\ pc = "called"
    /\ pc' = "print"
    /\ tickstart' = uwTick
    /\ edges' = 0
    /\ lag' = 0
    /\ UNCHANGED <<uwTick, ms, wait>>

\* Arming the delay without the extra tick for the partial first period.
DelayArm_NoGuardTick ==
    /\ pc = "print"
    /\ pc' = "waiting"
    /\ wait' = ms
    /\ lag' = 0
    /\ UNCHANGED <<uwTick, ms, tickstart, edges>>

\* The tick has been printed; wait is computed from ms.
DelayArm ==
    /\ pc = "print"
    /\ pc' = "waiting"
    /\ wait' = WaitOf(ms)
    /\ lag' = 0
    /\ UNCHANGED <<uwTick, ms, tickstart, edges>>

\* The loop condition compares with an absolute deadline that may wrap.
DelayPoll_Deadline ==
    /\ pc = "waiting"
    /\ pc' = IF uwTick < (tickstart + wait) % TickMod THEN "waiting" ELSE "idle"
    /\ lag' = 0
    /\ UNCHANGED <<uwTick, ms, tickstart, wait, edges>>

\* The loop reads tickstart again at each evaluation.
DelayPoll_Rereads ==
    /\ pc = "waiting"
    /\ pc' = IF Minus(uwTick, tickstart) < wait THEN "waiting" ELSE "idle"
    /\ tickstart' = uwTick
    /\ edges' = 0
    /\ lag' = 0
    /\ UNCHANGED <<uwTick, ms, wait>>

\* One evaluation of while (dri_systick_get_tick() - tickstart < wait).
DelayPoll ==
    /\ pc = "waiting"
    /\ pc' = IF Minus(uwTick, tickstart) < wait THEN "waiting" ELSE "idle"
    /\ lag' = 0
    /\ UNCHANGED <<uwTick, ms, tickstart, wait, edges>>

Foreground == DelayStart \/ DelayArm \/ DelayPoll

Next ==
    \/ SysTick_Handler
    \/ \E m \in Requests : DelayCall(m)
    \/ Foreground

\* The interrupt keeps firing and the foreground keeps running: SysTick is
\* free-running hardware and nothing else shares the processor.
Fairness == WF_vars(SysTick_Handler) /\ WF_vars(Foreground)

Spec == Init /\ [][Next]_vars
FairSpec == Spec /\ Fairness

-----------------------------------------------------------------------------

TypeOK ==
    /\ uwTick \in Ticks
    /\ pc \in {"idle", "called", "print", "waiting"}
    /\ ms \in Requests \cup {0}
    /\ tickstart \in Ticks
    /\ wait \in Ticks
    /\ edges \in Nat
    /\ lag \in Nat

\* Across a wrap of the 32-bit counter, the difference the loop evaluates is
\* exactly the number of interrupts since tickstart was read: no delay,
\* however long, sees an aliased difference (dri_Systick.c:72).
ElapsedExact == pc \in {"print", "waiting"} => Minus(uwTick, tickstart) = edges

\* A delay is never longer than asked by more than the guard tick and what
\* the foreground misses between two polls or during the printf.
DelayNotLong ==
    pc = "waiting" => edges < Larger(WaitOf(ms), PrintTicks + 1) + PollTicks

\* dri_systick_delay_ms returns only after ms whole periods, that is ms + 1
\* ticks since the first period is partial; the one exception is
\* ms = UINT32_MAX, for which the code drops the guard tick (lines 66-69).
DelayNeverShort ==
    [][pc = "waiting" /\ pc' = "idle"
          => edges >= IF ms = MaxTick THEN ms ELSE ms + 1]_vars

\* Every call of the delay returns, for every start value of the counter and
\* every argument, UINT32_MAX included.
DelayReturns == pc # "idle" ~> pc = "idle"
=============================================================================
