---------------------------- MODULE SysTickProofs ----------------------------
(***************************************************************************)
(* What dri_systick_delay_ms promises, for every width of the tick counter *)
(* and every set of requested delays that satisfies TickAssumption.        *)
(***************************************************************************)
EXTENDS SysTick, TLAPS

InDelay == pc \in {"print", "waiting"}

\* The counter is tickstart advanced by edges, wrapped at most once.
TickInv ==
    InDelay => /\ edges < TickMod
               /\ uwTick = IF tickstart + edges < TickMod
                             THEN tickstart + edges
                             ELSE (tickstart + edges) - TickMod

\* The request being served is one of the requests.
RequestInv == pc # "idle" => ms \in Requests

\* Between reading tickstart and the loop, every tick counts as lag.
PrintInv == pc = "print" => edges = lag /\ lag <= PrintTicks

\* In the loop, the last poll saw fewer than wait ticks.
WaitInv ==
    pc = "waiting" =>
        /\ wait = WaitOf(ms)
        /\ lag <= PollTicks
        /\ edges < Larger(wait, PrintTicks + 1) + lag

IInv == TypeOK /\ TickInv /\ RequestInv /\ PrintInv /\ WaitInv

-----------------------------------------------------------------------------

\* The number of ticks waited for fits the counter, and the foreground's lag
\* on top of it still does: this is what keeps the difference unaliased.
LEMMA WaitFits ==
    ASSUME NEW m \in Requests
    PROVE  /\ WaitOf(m) \in Ticks
           /\ WaitOf(m) + PollTicks <= TickMod
           /\ Larger(WaitOf(m), PrintTicks + 1) + PollTicks <= TickMod
<1>1. m \in 0 .. TickMod - 1
  BY TickAssumption DEF Ticks, MaxTick
<1>2. WaitOf(m) \in Ticks
  BY <1>1, TickAssumption DEF WaitOf, Ticks, MaxTick, uwTickFrequency
<1>3. WaitOf(m) + PollTicks <= TickMod
  BY TickAssumption
<1>4. PrintTicks + 1 + PollTicks <= TickMod
  BY TickAssumption
<1> QED
  BY <1>2, <1>3, <1>4, TickAssumption DEF Larger

\* Whenever TickInv holds, the unsigned difference is the number of interrupts.
LEMMA DifferenceExact == TypeOK /\ TickInv => ElapsedExact
<1> SUFFICES ASSUME TypeOK, TickInv, InDelay
             PROVE  Minus(uwTick, tickstart) = edges
  BY DEF ElapsedExact, InDelay
<1>1. tickstart \in 0 .. TickMod - 1 /\ edges \in Nat /\ edges < TickMod
  BY DEF TypeOK, TickInv, Ticks, MaxTick
<1>2. CASE tickstart + edges < TickMod
  BY <1>1, <1>2, TickAssumption DEF TickInv, Minus
<1>3. CASE ~(tickstart + edges < TickMod)
  BY <1>1, <1>3, TickAssumption DEF TickInv, Minus
<1> QED
  BY <1>2, <1>3

LEMMA InitInv == Init => IInv
BY TickAssumption
   DEF Init, IInv, TypeOK, TickInv, RequestInv, PrintInv, WaitInv, InDelay,
       Ticks, MaxTick

\* The interrupt keeps the counter in step with the history variable.
LEMMA HandlerInv == IInv /\ SysTick_Handler => IInv'
<1> SUFFICES ASSUME IInv, SysTick_Handler PROVE IInv'
  OBVIOUS
<1> USE DEF SysTick_Handler
<1>1. TypeOK'
  BY TickAssumption DEF IInv, TypeOK, Ticks, MaxTick, Succ
<1>2. InDelay => edges + 1 < TickMod
  <2>1. CASE pc = "print"
    BY <2>1, TickAssumption DEF IInv, PrintInv, TypeOK, LagBound
  <2>2. CASE pc = "waiting"
    <3>1. ms \in Requests /\ wait = WaitOf(ms) /\ lag < PollTicks
      BY <2>2 DEF IInv, RequestInv, WaitInv, LagBound
    <3>2. edges < Larger(wait, PrintTicks + 1) + lag
      BY <2>2 DEF IInv, WaitInv
    <3>3. Larger(wait, PrintTicks + 1) + PollTicks <= TickMod
      BY <3>1, WaitFits
    <3>4. Larger(wait, PrintTicks + 1) \in Nat
      BY TickAssumption DEF IInv, TypeOK, Larger, Ticks, MaxTick
    <3> QED
      BY <3>1, <3>2, <3>3, <3>4, TickAssumption DEF IInv, TypeOK
  <2> QED
    BY <2>1, <2>2 DEF InDelay
<1>3. TickInv'
  BY <1>2, TickAssumption
     DEF IInv, TypeOK, TickInv, InDelay, Ticks, MaxTick, Succ
<1>4. RequestInv' /\ PrintInv'
  BY TickAssumption DEF IInv, TypeOK, RequestInv, PrintInv, LagBound
<1>5. WaitInv'
  <2>1. Larger(wait, PrintTicks + 1) \in Nat
    BY TickAssumption DEF IInv, TypeOK, Larger, Ticks, MaxTick
  <2> QED
    BY <2>1, TickAssumption DEF IInv, TypeOK, WaitInv, LagBound
<1> QED
  BY <1>1, <1>3, <1>4, <1>5 DEF IInv

LEMMA CallInv == ASSUME NEW m \in Requests, IInv, DelayCall(m) PROVE IInv'
BY TickAssumption
   DEF DelayCall, IInv, TypeOK, TickInv, RequestInv, PrintInv, WaitInv, InDelay

\* The three foreground steps.
LEMMA ForegroundInv == IInv /\ Foreground => IInv'
<1> SUFFICES ASSUME IInv, Foreground PROVE IInv'
  OBVIOUS
<1>1. CASE DelayStart
  BY <1>1, TickAssumption
     DEF DelayStart, IInv, TypeOK, TickInv, RequestInv, PrintInv, WaitInv,
         InDelay, Ticks, MaxTick
<1>2. CASE DelayArm
  <2>1. ms \in Requests
    BY <1>2 DEF DelayArm, IInv, RequestInv
  <2>2. WaitOf(ms) \in Ticks
    BY <2>1, WaitFits
  <2>3. edges < Larger(WaitOf(ms), PrintTicks + 1) + 0
    BY <1>2, <2>2, TickAssumption
       DEF DelayArm, IInv, PrintInv, TypeOK, Larger, Ticks, MaxTick
  <2> QED
    BY <1>2, <2>1, <2>2, <2>3, TickAssumption
       DEF DelayArm, IInv, TypeOK, TickInv, RequestInv, PrintInv, WaitInv, InDelay
<1>3. CASE DelayPoll
  <2>1. Minus(uwTick, tickstart) = edges
    BY <1>3, DifferenceExact DEF DelayPoll, IInv, ElapsedExact
  <2>2. pc' = "waiting" => edges < wait
    BY <1>3, <2>1 DEF DelayPoll
  <2>3. wait \in Nat /\ edges \in Nat
    BY TickAssumption DEF IInv, TypeOK, Ticks, MaxTick
  <2>4. pc' = "waiting" => edges < Larger(wait, PrintTicks + 1) + 0
    BY <2>2, <2>3, TickAssumption DEF Larger
  <2> QED
    BY <1>3, <2>4, TickAssumption
       DEF DelayPoll, IInv, TypeOK, TickInv, RequestInv, PrintInv, WaitInv, InDelay
<1> QED
  BY <1>1, <1>2, <1>3 DEF Foreground

LEMMA StutterInv == IInv /\ UNCHANGED vars => IInv'
BY DEF vars, IInv, TypeOK, TickInv, RequestInv, PrintInv, WaitInv, InDelay

\* Type correctness and the strengthening it needs, in every reachable state
\* of the delay and its interrupt.
THEOREM Invariance == Spec => []IInv
<1>1. IInv /\ [Next]_vars => IInv'
  BY HandlerInv, CallInv, ForegroundInv, StutterInv DEF Next
<1> QED
  BY InitInv, <1>1, PTL DEF Spec

\* The difference the delay loop evaluates (dri_Systick.c:72) never aliases,
\* whatever the width of the counter.
THEOREM ElapsedIsExact == Spec => []ElapsedExact
<1>1. IInv => ElapsedExact
  BY DifferenceExact DEF IInv
<1> QED
  BY Invariance, <1>1, PTL

\* No delay overshoots by more than the guard tick and the foreground's lag.
THEOREM DelayIsNotLong == Spec => []DelayNotLong
<1>1. IInv => DelayNotLong
  <2> SUFFICES ASSUME IInv, pc = "waiting"
               PROVE  edges < Larger(WaitOf(ms), PrintTicks + 1) + PollTicks
    BY DEF DelayNotLong
  <2>1. Larger(wait, PrintTicks + 1) \in Nat
    BY TickAssumption DEF IInv, TypeOK, Larger, Ticks, MaxTick
  <2> QED
    BY <2>1, TickAssumption DEF IInv, WaitInv, TypeOK
<1> QED
  BY Invariance, <1>1, PTL

\* A delay of m ms returns no earlier than m whole periods after tickstart was
\* read, whatever the start value of the counter and wherever it wraps.
THEOREM DelayIsNeverShort == Spec => DelayNeverShort
<1>1. IInv /\ [Next]_vars =>
        [pc = "waiting" /\ pc' = "idle"
            => edges >= IF ms = MaxTick THEN ms ELSE ms + 1]_vars
  <2> SUFFICES ASSUME IInv, Next, pc = "waiting", pc' = "idle"
               PROVE  edges >= IF ms = MaxTick THEN ms ELSE ms + 1
    OBVIOUS
  <2>1. DelayPoll
    BY DEF Next, SysTick_Handler, DelayCall, Foreground, DelayStart, DelayArm
  <2>2. Minus(uwTick, tickstart) = edges
    BY DifferenceExact DEF IInv, ElapsedExact
  <2>3. ~(edges < wait)
    BY <2>1, <2>2 DEF DelayPoll
  <2>4. wait = WaitOf(ms) /\ ms \in Requests
    BY DEF IInv, WaitInv, RequestInv
  <2>5. wait \in Nat /\ edges \in Nat /\ ms \in 0 .. MaxTick
    BY <2>4, TickAssumption DEF IInv, TypeOK, Ticks, MaxTick
  <2> QED
    BY <2>3, <2>4, <2>5, TickAssumption DEF WaitOf, MaxTick, uwTickFrequency
<1> QED
  BY Invariance, <1>1, PTL DEF Spec, DelayNeverShort
=============================================================================
