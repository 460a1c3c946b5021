-------------------------- MODULE ClockConfigProofs --------------------------
(***************************************************************************)
(* Proofs about the clock configuration, for any requests, both chips and  *)
(* however late SYSCLK follows.                                            *)
(*                                                                         *)
(* What holds in the middle of a function depends on how far it has come.  *)
(* The functions are five sequences of operations; the invariants say at   *)
(* which point of which of them what is known.                             *)
(***************************************************************************)
EXTENDS ClockConfig, SequenceTheorems, TLAPS

\* The sequence that serves a request.
Shape(c) ==
    IF c = Boot THEN "boot"
    ELSE IF c.to = "PLL" THEN IF MakesFactor(c) THEN "pll" ELSE "fail"
    ELSE IF c.to # "MSI" /\ chip = "old" THEN "old" ELSE "direct"

StartOp(c) == IF c.to = "MSI" THEN "start_msi" ELSE IF c.to = "HSI" THEN "enable" ELSE "restart"

\* The PLL setting that a request leads to.
Factor(c) ==
    IF c.to = "PLL" THEN c.mhz \div (OscMHz(c.osc) \div c.div) ELSE IF c = Boot THEN 16 ELSE 2
Wanted(c) == [osc |-> c.osc, div |-> IF c.to \in Oscillators THEN 2 ELSE c.div,
              code |-> PllMulCode(Factor(c))]

\* The sequences, operation by operation.
Code(c) ==
    CASE Shape(c) = "boot" ->
            <<Do("enable", "HSE"), Do("await", "HSE"),
              Do("latency", 1), Do("pclk2", 2), Do("pclk1", 4),
              Do("pll_cfg", Wanted(c)), Do("pll_on", 0), Do("spin", "PLL"),
              Do("select", "PLL"), Do("spin_switched", "PLL")>>
      [] Shape(c) = "direct" ->
            <<Do(StartOp(c), c.osc), Do("await", c.osc),
              Do("select", c.osc), Do("switched", c.osc),
              Do("latency", 0), Do("pclk2", 1), Do("pclk1", 1)>>
      [] Shape(c) = "old" ->
            <<Do(StartOp(c), c.osc), Do("await", c.osc),
              Do("start_msi", "MSI"), Do("await", "MSI"), Do("select", "MSI"),
              Do("pll_off", 0), Do("pll_cfg", Wanted(c)), Do("pll_on", 0), Do("await", "PLL"),
              Do("select", "PLL"), Do("switched", "PLL"), Do("stop_msi", 0),
              Do("latency", 0), Do("pclk2", 1), Do("pclk1", 1)>>
      [] Shape(c) = "pll" ->
            <<Do("restart", c.osc), Do("await", c.osc),
              Do("start_msi", "MSI"), Do("await", "MSI"), Do("select", "MSI"),
              Do("latency", c.mhz \div 32), Do("pclk2", Pclk2Div(c.mhz)),
              Do("pclk1", Pclk1Div(c.mhz)),
              Do("pll_off", 0), Do("pll_cfg", Wanted(c)), Do("pll_on", 0), Do("await", "PLL"),
              Do("select", "PLL"), Do("switched", "PLL"), Do("stop_msi", 0)>>
      [] OTHER ->
            <<Do("restart", c.osc), Do("await", c.osc), Do("fail", 0)>>

\* The operation that comes next, and the same counted so that what the
\* functions that set up the PLL have in common has the same number: 6 pll_off,
\* 7 pll_cfg, 8 pll_on, 9 the wait for the PLL, 10 its selection, 11 the wait
\* for SYSCLK, 12 stop_msi.
StageOf(c, i) == CASE Shape(c) = "boot" -> i + 1
                   [] Shape(c) = "pll" -> i - 3
                   [] OTHER -> i

point == Len(Code(call)) - Len(prog) + 1
stage == StageOf(call, point)

\* The function that runs is somewhere in the sequence of its request.
Located ==
    /\ Len(prog) <= Len(Code(call))
    /\ prog \in Seq({Code(call)[i] : i \in 1 .. Len(Code(call))})
    /\ \A i \in 1 .. Len(prog) : prog[i] = Code(call)[point + i - 1]
    /\ Shape(call) = "fail" => prog # <<>>

InitPlans == {<<>>, <<Pll64>>, <<Direct("HSE"), Pll64>>,
              <<Direct("MSI"), Direct("HSE"), Pll64>>}

ClockTypeOK ==
    /\ result \in {"none", "SUCCESS", "ERROR"}
    /\ result # "none" => prog = <<>>
    /\ call = Boot \/ IsRequest(call)
    /\ plan \in InitPlans
    /\ rdy \subseteq on /\ on \subseteq Sources
    /\ sw \in Sources /\ sws \in Sources
    /\ pll.osc \in {"HSI", "HSE"} /\ pll.div \in {1, 2, 4} /\ pll.code \in Nat
    /\ latency \in Nat /\ div1 \in {1, 2, 4} /\ div2 \in {1, 2}
    /\ msi_ready_flag \in BOOLEAN
    /\ chip \in Chips /\ mode \in Modes

-----------------------------------------------------------------------------
(* What holds however late SYSCLK is. *)

PllShapes == {"boot", "old", "pll"}
MsiShapes == {"old", "pll"}
SetsPll == Shape(call) \in PllShapes
ByMsi == Shape(call) \in MsiShapes

\* What the running function has waited for is ready.
WaitedReady ==
    /\ point >= 3 => call.osc \in rdy
    /\ ByMsi /\ point >= 5 /\ stage <= 12 => "MSI" \in rdy
    /\ SetsPll /\ stage >= 10 => "PLL" \in rdy

\* What it has selected is selected, and in use once it has waited for that.
Selected ==
    /\ Shape(call) = "boot" /\ stage <= 10 => sw = "MSI" /\ sws = "MSI"
    /\ Shape(call) = "direct" /\ point >= 4 => sw = call.osc
    /\ Shape(call) = "direct" /\ point >= 5 => sws = call.osc
    /\ ByMsi /\ point >= 6 /\ stage <= 10 => sw = "MSI"
    /\ SetsPll /\ stage >= 11 => sw = "PLL"
    /\ SetsPll /\ stage >= 12 => sws = "PLL"

\* SYSCLK's source and the PLL's run.
Alive == sws \in rdy /\ ("PLL" \in rdy => pll.osc \in rdy)

ClockIInv ==
    /\ ClockTypeOK
    /\ Alive
    /\ result = "none" => Located /\ WaitedReady /\ Selected

-----------------------------------------------------------------------------
(* What holds while no wait for the switch times out. *)

\* No operation of the running function has selected a source yet.
BeforeSelect ==
    \/ Shape(call) = "direct" /\ point <= 3
    \/ ByMsi /\ point <= 5
    \/ Shape(call) = "fail"

\* The call is at a place where SYSCLK, if it was on the MSI, is so still.
BeforeNewClock ==
    \/ Shape(call) = "direct" /\ point <= 3
    \/ ByMsi /\ stage <= 10
    \/ Shape(call) = "fail"

\* Between calls SYSCLK is where it was asked to be or on its way to the MSI,
\* and a call that has not selected its source yet has not moved it from the MSI.
LateToMsi ==
    lag # "long" =>
        /\ result # "none" \/ BeforeSelect => sw = sws \/ sw = "MSI"
        /\ entry = "MSI" /\ (IF result = "none" THEN BeforeNewClock ELSE result = "ERROR")
             => sw = "MSI" /\ sws = "MSI"

-----------------------------------------------------------------------------
(* dri_ClockConfig_Init, in any mode but the one without a bound. *)

\* What is left to call after a call.
PlanAfter ==
    \/ call = Boot /\ plan = <<Direct("MSI"), Direct("HSE"), Pll64>>
    \/ call = Direct("MSI") /\ plan = <<Direct("HSE"), Pll64>>
    \/ call = Direct("HSE") /\ plan = <<Pll64>>
    \/ call = Pll64 /\ plan = <<>>

\* The MSI runs until the first call has moved SYSCLK to it, so that this call
\* cannot fail and the next one starts from the MSI.
FirmwareOK ==
    mode.caller = "firmware" =>
        /\ PlanAfter
        /\ call \in {Boot, Direct("MSI")} => "MSI" \in rdy
        /\ call = Direct("MSI") /\ result # "none" /\ lag # "long"
             => result = "SUCCESS" /\ sws = "MSI" /\ sw = "MSI"
        /\ call = Direct("HSE") /\ lag # "long" => entry = "MSI"

-----------------------------------------------------------------------------
(* What holds while SYSCLK follows before the next operation: always when it *)
(* follows at once, and in dri_ClockConfig_Init when it is only prompt until *)
(* the last of its three functions, since the MSI is in use already when the *)
(* second one selects it.                                                    *)

Firmware == mode.caller = "firmware" /\ lag = "short"
Prompt == lag = "none" \/ (Firmware /\ call # Pll64)

\* SYSCLK is late only right after a selection.
AfterSelect ==
    /\ result = "none"
    /\ \/ Shape(call) = "direct" /\ point = 4
       \/ ByMsi /\ point = 6
       \/ SetsPll /\ stage = 11

InStep == Prompt /\ sw # sws => AfterSelect

\* The PLL takes its settings: it is off when it gets them.
PllSet ==
    Prompt /\ result = "none" /\ SetsPll =>
        /\ (Shape(call) = "boot" \/ stage >= 7) /\ stage <= 8 => "PLL" \notin on
        /\ stage >= 8 => pll = Wanted(call)

\* Dividers and wait states are set for the PLL's frequency before it is used.
DividersSet ==
    result = "none" /\ Shape(call) \in {"boot", "pll"} =>
        /\ (IF Shape(call) = "boot" THEN point >= 4 ELSE point >= 7)
              => latency = (IF call = Boot THEN 1 ELSE call.mhz \div 32)
        /\ (IF Shape(call) = "boot" THEN point >= 5 ELSE point >= 8)
              => div2 = Pclk2Div(call.mhz)
        /\ stage >= 6 /\ (Shape(call) = "boot" => stage >= 7) => div1 = Pclk1Div(call.mhz)

\* The limits, and the clock that success stands for.
Limits == Prompt => FlashOK /\ BusOK

Success ==
    Prompt /\ result = "SUCCESS" =>
        \/ Shape(call) = "direct" /\ sw = call.osc /\ sws = call.osc
        \/ SetsPll /\ sw = "PLL" /\ sws = "PLL" /\ pll = Wanted(call)

PromptInv == InStep /\ PllSet /\ DividersSet /\ Limits /\ Success /\ call.mhz <= 64

-----------------------------------------------------------------------------
(* The last call of dri_ClockConfig_Init goes on while SYSCLK may still be   *)
(* on a PLL at 8 MHz, which may take its new settings at once.               *)

LastPll ==
    Firmware /\ call = Pll64 /\ result = "none" =>
        /\ stage <= 7 /\ (sws = "PLL" \/ (stage = 7 /\ "PLL" \in on)) => PllMHz(pll) = 8
        /\ stage >= 8 => PllMHz(pll) <= 64

LastCall == LastPll /\ (Firmware /\ call = Pll64 => FlashOK /\ BusOK)

-----------------------------------------------------------------------------
(* The requests and the sequences that serve them. *)

\* What a request can be.
LEMMA Requests ==
  ASSUME NEW c, IsRequest(c)
  PROVE  /\ c # Boot /\ c.to # "boot"
         /\ c.to \in Oscillators => c = Direct(c.to) /\ c.osc = c.to /\ c.mhz = OscMHz(c.to)
         /\ c.to \notin Oscillators => c.to = "PLL" /\ c.osc \in {"HSI", "HSE"}
                                       /\ c.div \in {1, 2, 4}
         /\ c.to \in Oscillators \cup {"PLL"} /\ c.osc \in Oscillators
         /\ c.mhz \in Nat
<1>1. CASE \E o \in Oscillators : c = Direct(o)
  BY <1>1 DEF Direct, Boot, Oscillators, OscMHz
<1>2. CASE c.to = "PLL" /\ c.osc \in {"HSI", "HSE"} /\ c.div \in {1, 2, 4} /\ c.mhz \in Nat
  BY <1>2 DEF Boot, Oscillators
<1> QED
  BY <1>1, <1>2 DEF IsRequest

\* Which sequence serves which request.
LEMMA Shapes ==
  ASSUME NEW c, c = Boot \/ IsRequest(c)
  PROVE  /\ Shape(c) \in {"boot", "direct", "old", "pll", "fail"}
         /\ Shape(c) = "boot" <=> c = Boot
         /\ Shape(c) = "direct" => c.to \in Oscillators
         /\ Shape(c) = "old" => c.to \in {"HSI", "HSE"}
         /\ Shape(c) = "pll" => c.to = "PLL" /\ MakesFactor(c)
         /\ Shape(c) = "fail" => c.to = "PLL"
         /\ Shape(c) \in {"boot", "old", "pll", "fail"} => c.osc \in {"HSI", "HSE"}
         /\ c.osc \in Oscillators
<1>1. CASE c = Boot
  BY <1>1 DEF Shape, Boot, Oscillators
<1>2. CASE IsRequest(c)
  BY <1>2, Requests DEF Shape, Oscillators
<1> QED
  BY <1>1, <1>2

\* The PLL runs at the frequency it is wanted for, up to 16 MHz for the
\* direct requests on the old chip.
LEMMA WantedMHz ==
  ASSUME NEW c, c = Boot \/ IsRequest(c), Shape(c) \in {"boot", "old", "pll"}
  PROVE  /\ Wanted(c).osc \in {"HSI", "HSE"} /\ Wanted(c).osc = c.osc
         /\ Wanted(c).div \in {1, 2, 4} /\ Wanted(c).code \in Nat /\ Wanted(c).code # 15
         /\ PllMHz(Wanted(c)) = c.mhz
         /\ Shape(c) = "old" => c.mhz <= 16
         /\ c.to = "HSE" => c.mhz = 8
<1>1. CASE c = Boot
  BY <1>1, Shapes DEF Wanted, Boot, Factor, PllMHz, PllMul, PllMulCode, OscMHz, Oscillators
<1>2. CASE Shape(c) = "old"
  <2>1. IsRequest(c) /\ c.to \in {"HSI", "HSE"}
    BY <1>2, Shapes
  <2>2. c.osc = c.to /\ c.mhz = OscMHz(c.to)
    BY <2>1, Requests DEF Oscillators
  <2>3. Wanted(c) = [osc |-> c.osc, div |-> 2, code |-> 0]
    BY <2>1, Requests DEF Wanted, Factor, PllMulCode, Oscillators
  <2> QED
    BY <2>1, <2>2, <2>3 DEF PllMHz, PllMul, OscMHz
<1>3. CASE Shape(c) = "pll"
  <2>1. IsRequest(c) /\ c.to = "PLL" /\ MakesFactor(c)
    BY <1>3, Shapes
  <2>2. c.osc \in {"HSI", "HSE"} /\ c.div \in {1, 2, 4} /\ c.mhz \in Nat
    BY <2>1, Requests DEF Oscillators
  <2> DEFINE clk == OscMHz(c.osc) \div c.div
             m == c.mhz \div clk
  <2>3. clk \in {2, 4, 8, 16}
    BY <2>2 DEF OscMHz
  <2>4. c.mhz % clk = 0 /\ m \in 2 .. 32
    BY <2>1 DEF MakesFactor
  <2>5. Wanted(c).osc = c.osc /\ Wanted(c).div = c.div /\ Wanted(c).code = PllMulCode(m)
    BY <2>1 DEF Wanted, Factor, Oscillators
  <2>6. PllMulCode(m) \in Nat /\ PllMulCode(m) # 15 /\ PllMul(PllMulCode(m)) = m
    <3> HIDE DEF m
    <3> QED
      BY <2>4 DEF PllMulCode, PllMul
  <2>7. clk * m = c.mhz
    <3> HIDE DEF clk
    <3> QED
      BY <2>2, <2>3, <2>4
  <2> QED
    BY <1>3, <2>1, <2>2, <2>5, <2>6, <2>7 DEF PllMHz
<1> QED
  BY <1>1, <1>2, <1>3, Shapes

\* Two sequences joined, element by element.
LEMMA Glue ==
  ASSUME NEW S, NEW s \in Seq(S), NEW t \in Seq(S), NEW u \in Seq(S),
         Len(u) = Len(s) + Len(t),
         \A i \in 1 .. Len(s) : u[i] = s[i],
         \A i \in 1 .. Len(t) : u[Len(s) + i] = t[i]
  PROVE  s \o t = u
<1>1. Len(s) \in Nat /\ Len(t) \in Nat /\ s \o t \in Seq(S) /\ Len(s \o t) = Len(s) + Len(t)
  BY LenProperties, ConcatProperties
<1>2. \A i \in 1 .. Len(s) + Len(t) : (s \o t)[i] = IF i <= Len(s) THEN s[i] ELSE t[i - Len(s)]
  BY ConcatProperties
<1>3. ASSUME NEW i \in 1 .. Len(s) + Len(t) PROVE (s \o t)[i] = u[i]
  <2>1. CASE i <= Len(s)
    BY <1>1, <1>2, <2>1
  <2>2. CASE i > Len(s)
    <3>1. i - Len(s) \in 1 .. Len(t) /\ Len(s) + (i - Len(s)) = i
      BY <1>1, <2>2
    <3>2. (s \o t)[i] = t[i - Len(s)]
      BY <1>1, <1>2, <2>2
    <3> QED
      BY <3>1, <3>2
  <2> QED
    BY <1>1, <2>1, <2>2
<1> QED
  BY <1>1, <1>3, SeqEqual

\* The lengths that occur, since the provers know a tuple by its elements only.
LEMMA Glue_2_1 ==
  ASSUME NEW a, NEW b, NEW c
  PROVE  <<a, b>> \o <<c>> = <<a, b, c>>
<1> DEFINE S == {a, b, c}
           s == <<a, b>>
           t == <<c>>
           u == <<a, b, c>>
<1>1. s \in Seq(S) /\ t \in Seq(S) /\ u \in Seq(S)
  OBVIOUS
<1>2. /\ Len(u) = Len(s) + Len(t)
      /\ \A pos \in 1 .. Len(s) : u[pos] = s[pos]
      /\ \A pos \in 1 .. Len(t) : u[Len(s) + pos] = t[pos]
  OBVIOUS
<1> HIDE DEF S, s, t, u
<1>3. s \o t = u
  BY <1>1, <1>2, Glue
<1> QED
  BY <1>3 DEF s, t, u

LEMMA Glue_2_2 ==
  ASSUME NEW a, NEW b, NEW c, NEW d
  PROVE  <<a, b>> \o <<c, d>> = <<a, b, c, d>>
<1> DEFINE S == {a, b, c, d}
           s == <<a, b>>
           t == <<c, d>>
           u == <<a, b, c, d>>
<1>1. s \in Seq(S) /\ t \in Seq(S) /\ u \in Seq(S)
  OBVIOUS
<1>2. /\ Len(u) = Len(s) + Len(t)
      /\ \A pos \in 1 .. Len(s) : u[pos] = s[pos]
      /\ \A pos \in 1 .. Len(t) : u[Len(s) + pos] = t[pos]
  OBVIOUS
<1> HIDE DEF S, s, t, u
<1>3. s \o t = u
  BY <1>1, <1>2, Glue
<1> QED
  BY <1>3 DEF s, t, u

LEMMA Glue_4_3 ==
  ASSUME NEW a, NEW b, NEW c, NEW d, NEW e, NEW f, NEW g
  PROVE  <<a, b, c, d>> \o <<e, f, g>> = <<a, b, c, d, e, f, g>>
<1> DEFINE S == {a, b, c, d, e, f, g}
           s == <<a, b, c, d>>
           t == <<e, f, g>>
           u == <<a, b, c, d, e, f, g>>
<1>1. s \in Seq(S) /\ t \in Seq(S) /\ u \in Seq(S)
  OBVIOUS
<1>2. /\ Len(u) = Len(s) + Len(t)
      /\ \A pos \in 1 .. Len(s) : u[pos] = s[pos]
      /\ \A pos \in 1 .. Len(t) : u[Len(s) + pos] = t[pos]
  OBVIOUS
<1> HIDE DEF S, s, t, u
<1>3. s \o t = u
  BY <1>1, <1>2, Glue
<1> QED
  BY <1>3 DEF s, t, u

LEMMA Glue_4_2 ==
  ASSUME NEW a, NEW b, NEW c, NEW d, NEW e, NEW f
  PROVE  <<a, b, c, d>> \o <<e, f>> = <<a, b, c, d, e, f>>
<1> DEFINE S == {a, b, c, d, e, f}
           s == <<a, b, c, d>>
           t == <<e, f>>
           u == <<a, b, c, d, e, f>>
<1>1. s \in Seq(S) /\ t \in Seq(S) /\ u \in Seq(S)
  OBVIOUS
<1>2. /\ Len(u) = Len(s) + Len(t)
      /\ \A pos \in 1 .. Len(s) : u[pos] = s[pos]
      /\ \A pos \in 1 .. Len(t) : u[Len(s) + pos] = t[pos]
  OBVIOUS
<1> HIDE DEF S, s, t, u
<1>3. s \o t = u
  BY <1>1, <1>2, Glue
<1> QED
  BY <1>3 DEF s, t, u

LEMMA Glue_6_1 ==
  ASSUME NEW a, NEW b, NEW c, NEW d, NEW e, NEW f, NEW g
  PROVE  <<a, b, c, d, e, f>> \o <<g>> = <<a, b, c, d, e, f, g>>
<1> DEFINE S == {a, b, c, d, e, f, g}
           s == <<a, b, c, d, e, f>>
           t == <<g>>
           u == <<a, b, c, d, e, f, g>>
<1>1. s \in Seq(S) /\ t \in Seq(S) /\ u \in Seq(S)
  OBVIOUS
<1>2. /\ Len(u) = Len(s) + Len(t)
      /\ \A pos \in 1 .. Len(s) : u[pos] = s[pos]
      /\ \A pos \in 1 .. Len(t) : u[Len(s) + pos] = t[pos]
  OBVIOUS
<1> HIDE DEF S, s, t, u
<1>3. s \o t = u
  BY <1>1, <1>2, Glue
<1> QED
  BY <1>3 DEF s, t, u

LEMMA Glue_3_7 ==
  ASSUME NEW a, NEW b, NEW c, NEW d, NEW e, NEW f, NEW g, NEW h, NEW i, NEW j
  PROVE  <<a, b, c>> \o <<d, e, f, g, h, i, j>> = <<a, b, c, d, e, f, g, h, i, j>>
<1> DEFINE S == {a, b, c, d, e, f, g, h, i, j}
           s == <<a, b, c>>
           t == <<d, e, f, g, h, i, j>>
           u == <<a, b, c, d, e, f, g, h, i, j>>
<1>1. s \in Seq(S) /\ t \in Seq(S) /\ u \in Seq(S)
  OBVIOUS
<1>2. /\ Len(u) = Len(s) + Len(t)
      /\ \A pos \in 1 .. Len(s) : u[pos] = s[pos]
      /\ \A pos \in 1 .. Len(t) : u[Len(s) + pos] = t[pos]
  OBVIOUS
<1> HIDE DEF S, s, t, u
<1>3. s \o t = u
  BY <1>1, <1>2, Glue
<1> QED
  BY <1>3 DEF s, t, u

LEMMA Glue_2_10 ==
  ASSUME NEW a, NEW b, NEW c, NEW d, NEW e, NEW f, NEW g, NEW h, NEW i, NEW j, NEW k,
         NEW l
  PROVE  <<a, b>> \o <<c, d, e, f, g, h, i, j, k, l>> = <<a, b, c, d, e, f, g, h, i, j, k, l>>
<1> DEFINE S == {a, b, c, d, e, f, g, h, i, j, k, l}
           s == <<a, b>>
           t == <<c, d, e, f, g, h, i, j, k, l>>
           u == <<a, b, c, d, e, f, g, h, i, j, k, l>>
<1>1. s \in Seq(S) /\ t \in Seq(S) /\ u \in Seq(S)
  OBVIOUS
<1>2. /\ Len(u) = Len(s) + Len(t)
      /\ \A pos \in 1 .. Len(s) : u[pos] = s[pos]
      /\ \A pos \in 1 .. Len(t) : u[Len(s) + pos] = t[pos]
  OBVIOUS
<1> HIDE DEF S, s, t, u
<1>3. s \o t = u
  BY <1>1, <1>2, Glue
<1> QED
  BY <1>3 DEF s, t, u

LEMMA Glue_12_3 ==
  ASSUME NEW a, NEW b, NEW c, NEW d, NEW e, NEW f, NEW g, NEW h, NEW i, NEW j, NEW k,
         NEW l, NEW m, NEW n, NEW o
  PROVE  <<a, b, c, d, e, f, g, h, i, j, k, l>> \o <<m, n, o>>
         = <<a, b, c, d, e, f, g, h, i, j, k, l, m, n, o>>
<1> DEFINE S == {a, b, c, d, e, f, g, h, i, j, k, l, m, n, o}
           s == <<a, b, c, d, e, f, g, h, i, j, k, l>>
           t == <<m, n, o>>
           u == <<a, b, c, d, e, f, g, h, i, j, k, l, m, n, o>>
<1>1. s \in Seq(S) /\ t \in Seq(S) /\ u \in Seq(S)
  OBVIOUS
<1>2. /\ Len(u) = Len(s) + Len(t)
      /\ \A pos \in 1 .. Len(s) : u[pos] = s[pos]
      /\ \A pos \in 1 .. Len(t) : u[Len(s) + pos] = t[pos]
  OBVIOUS
<1> HIDE DEF S, s, t, u
<1>3. s \o t = u
  BY <1>1, <1>2, Glue
<1> QED
  BY <1>3 DEF s, t, u

LEMMA Glue_3_3 ==
  ASSUME NEW a, NEW b, NEW c, NEW d, NEW e, NEW f
  PROVE  <<a, b, c>> \o <<d, e, f>> = <<a, b, c, d, e, f>>
<1> DEFINE S == {a, b, c, d, e, f}
           s == <<a, b, c>>
           t == <<d, e, f>>
           u == <<a, b, c, d, e, f>>
<1>1. s \in Seq(S) /\ t \in Seq(S) /\ u \in Seq(S)
  OBVIOUS
<1>2. /\ Len(u) = Len(s) + Len(t)
      /\ \A pos \in 1 .. Len(s) : u[pos] = s[pos]
      /\ \A pos \in 1 .. Len(t) : u[Len(s) + pos] = t[pos]
  OBVIOUS
<1> HIDE DEF S, s, t, u
<1>3. s \o t = u
  BY <1>1, <1>2, Glue
<1> QED
  BY <1>3 DEF s, t, u

LEMMA Glue_6_7 ==
  ASSUME NEW a, NEW b, NEW c, NEW d, NEW e, NEW f, NEW g, NEW h, NEW i, NEW j, NEW k,
         NEW l, NEW m
  PROVE  <<a, b, c, d, e, f>> \o <<g, h, i, j, k, l, m>> = <<a, b, c, d, e, f, g, h, i, j, k, l, m>>
<1> DEFINE S == {a, b, c, d, e, f, g, h, i, j, k, l, m}
           s == <<a, b, c, d, e, f>>
           t == <<g, h, i, j, k, l, m>>
           u == <<a, b, c, d, e, f, g, h, i, j, k, l, m>>
<1>1. s \in Seq(S) /\ t \in Seq(S) /\ u \in Seq(S)
  OBVIOUS
<1>2. /\ Len(u) = Len(s) + Len(t)
      /\ \A pos \in 1 .. Len(s) : u[pos] = s[pos]
      /\ \A pos \in 1 .. Len(t) : u[Len(s) + pos] = t[pos]
  OBVIOUS
<1> HIDE DEF S, s, t, u
<1>3. s \o t = u
  BY <1>1, <1>2, Glue
<1> QED
  BY <1>3 DEF s, t, u

LEMMA Glue_2_13 ==
  ASSUME NEW a, NEW b, NEW c, NEW d, NEW e, NEW f, NEW g, NEW h, NEW i, NEW j, NEW k,
         NEW l, NEW m, NEW n, NEW o
  PROVE  <<a, b>> \o <<c, d, e, f, g, h, i, j, k, l, m, n, o>>
         = <<a, b, c, d, e, f, g, h, i, j, k, l, m, n, o>>
<1> DEFINE S == {a, b, c, d, e, f, g, h, i, j, k, l, m, n, o}
           s == <<a, b>>
           t == <<c, d, e, f, g, h, i, j, k, l, m, n, o>>
           u == <<a, b, c, d, e, f, g, h, i, j, k, l, m, n, o>>
<1>1. s \in Seq(S) /\ t \in Seq(S) /\ u \in Seq(S)
  OBVIOUS
<1>2. /\ Len(u) = Len(s) + Len(t)
      /\ \A pos \in 1 .. Len(s) : u[pos] = s[pos]
      /\ \A pos \in 1 .. Len(t) : u[Len(s) + pos] = t[pos]
  OBVIOUS
<1> HIDE DEF S, s, t, u
<1>3. s \o t = u
  BY <1>1, <1>2, Glue
<1> QED
  BY <1>3 DEF s, t, u

LEMMA Glue_2_3 ==
  ASSUME NEW a, NEW b, NEW c, NEW d, NEW e
  PROVE  <<a, b>> \o <<c, d, e>> = <<a, b, c, d, e>>
<1> DEFINE S == {a, b, c, d, e}
           s == <<a, b>>
           t == <<c, d, e>>
           u == <<a, b, c, d, e>>
<1>1. s \in Seq(S) /\ t \in Seq(S) /\ u \in Seq(S)
  OBVIOUS
<1>2. /\ Len(u) = Len(s) + Len(t)
      /\ \A pos \in 1 .. Len(s) : u[pos] = s[pos]
      /\ \A pos \in 1 .. Len(t) : u[Len(s) + pos] = t[pos]
  OBVIOUS
<1> HIDE DEF S, s, t, u
<1>3. s \o t = u
  BY <1>1, <1>2, Glue
<1> QED
  BY <1>3 DEF s, t, u

LEMMA Glue_5_5 ==
  ASSUME NEW a, NEW b, NEW c, NEW d, NEW e, NEW f, NEW g, NEW h, NEW i, NEW j
  PROVE  <<a, b, c, d, e>> \o <<f, g, h, i, j>> = <<a, b, c, d, e, f, g, h, i, j>>
<1> DEFINE S == {a, b, c, d, e, f, g, h, i, j}
           s == <<a, b, c, d, e>>
           t == <<f, g, h, i, j>>
           u == <<a, b, c, d, e, f, g, h, i, j>>
<1>1. s \in Seq(S) /\ t \in Seq(S) /\ u \in Seq(S)
  OBVIOUS
<1>2. /\ Len(u) = Len(s) + Len(t)
      /\ \A pos \in 1 .. Len(s) : u[pos] = s[pos]
      /\ \A pos \in 1 .. Len(t) : u[Len(s) + pos] = t[pos]
  OBVIOUS
<1> HIDE DEF S, s, t, u
<1>3. s \o t = u
  BY <1>1, <1>2, Glue
<1> QED
  BY <1>3 DEF s, t, u

\* The functions of the model, written out: what the PLL functions begin with...
LEMMA RunFromMsiIs ==
  RunFromMsi = <<Do("start_msi", "MSI"), Do("await", "MSI"), Do("select", "MSI")>>
BY Glue_2_1 DEF RunFromMsi, Start

\* ... and what they end with.
LEMMA StartPllIs ==
  ASSUME NEW osc, NEW d, NEW mul
  PROVE  StartPll(osc, d, mul) =
           <<Do("pll_off", 0), Do("pll_cfg", [osc |-> osc, div |-> d, code |-> PllMulCode(mul)]),
             Do("pll_on", 0), Do("await", "PLL"), Do("select", "PLL"), Do("switched", "PLL"),
             Do("stop_msi", 0)>>
<1> DEFINE cfg == Do("pll_cfg", [osc |-> osc, div |-> d, code |-> PllMulCode(mul)])
<1>1. StartPll(osc, d, mul) =
         <<Do("pll_off", 0), cfg, Do("pll_on", 0), Do("await", "PLL")>>
         \o <<Do("select", "PLL"), Do("switched", "PLL")>> \o <<Do("stop_msi", 0)>>
  BY DEF StartPll, SwitchTo
<1>2. QED
  <2> HIDE DEF cfg
  <2>1. <<Do("pll_off", 0), cfg, Do("pll_on", 0), Do("await", "PLL")>>
           \o <<Do("select", "PLL"), Do("switched", "PLL")>>
        = <<Do("pll_off", 0), cfg, Do("pll_on", 0), Do("await", "PLL"),
            Do("select", "PLL"), Do("switched", "PLL")>>
    BY Glue_4_2
  <2>2. <<Do("pll_off", 0), cfg, Do("pll_on", 0), Do("await", "PLL"),
          Do("select", "PLL"), Do("switched", "PLL")>> \o <<Do("stop_msi", 0)>>
        = <<Do("pll_off", 0), cfg, Do("pll_on", 0), Do("await", "PLL"),
            Do("select", "PLL"), Do("switched", "PLL"), Do("stop_msi", 0)>>
    BY Glue_6_1
  <2> QED
    BY <1>1, <2>1, <2>2 DEF cfg

\* The functions that select an oscillator itself.
LEMMA DirectIs ==
  ASSUME NEW op, NEW o
  PROVE  <<Do(op, o), Do("await", o)>> \o SwitchTo(o) \o Prescale(0, 1, 1)
         = <<Do(op, o), Do("await", o), Do("select", o), Do("switched", o),
             Do("latency", 0), Do("pclk2", 1), Do("pclk1", 1)>>
<1>1. <<Do(op, o), Do("await", o)>> \o SwitchTo(o)
      = <<Do(op, o), Do("await", o), Do("select", o), Do("switched", o)>>
  BY Glue_2_2 DEF SwitchTo
<1>2. <<Do(op, o), Do("await", o), Do("select", o), Do("switched", o)>> \o Prescale(0, 1, 1)
      = <<Do(op, o), Do("await", o), Do("select", o), Do("switched", o),
          Do("latency", 0), Do("pclk2", 1), Do("pclk1", 1)>>
  BY Glue_4_3 DEF Prescale
<1> QED
  BY <1>1, <1>2

\* The functions of the old chip, which go through the PLL.
LEMMA OldIs ==
  ASSUME NEW op, NEW o
  PROVE  <<Do(op, o), Do("await", o)>> \o (RunFromMsi \o StartPll(o, 2, 2))
            \o Prescale(0, 1, 1)
         = <<Do(op, o), Do("await", o),
             Do("start_msi", "MSI"), Do("await", "MSI"), Do("select", "MSI"),
             Do("pll_off", 0), Do("pll_cfg", [osc |-> o, div |-> 2, code |-> PllMulCode(2)]),
             Do("pll_on", 0), Do("await", "PLL"),
             Do("select", "PLL"), Do("switched", "PLL"), Do("stop_msi", 0),
             Do("latency", 0), Do("pclk2", 1), Do("pclk1", 1)>>
<1> DEFINE cfg == Do("pll_cfg", [osc |-> o, div |-> 2, code |-> PllMulCode(2)])
<1>1. StartPll(o, 2, 2) =
         <<Do("pll_off", 0), cfg, Do("pll_on", 0), Do("await", "PLL"), Do("select", "PLL"),
           Do("switched", "PLL"), Do("stop_msi", 0)>>
  BY StartPllIs
<1> HIDE DEF cfg
<1>2. RunFromMsi \o StartPll(o, 2, 2) =
         <<Do("start_msi", "MSI"), Do("await", "MSI"), Do("select", "MSI"),
           Do("pll_off", 0), cfg, Do("pll_on", 0), Do("await", "PLL"), Do("select", "PLL"),
           Do("switched", "PLL"), Do("stop_msi", 0)>>
  <2>1. <<Do("start_msi", "MSI"), Do("await", "MSI"), Do("select", "MSI")>>
        \o <<Do("pll_off", 0), cfg, Do("pll_on", 0), Do("await", "PLL"), Do("select", "PLL"),
             Do("switched", "PLL"), Do("stop_msi", 0)>>
        = <<Do("start_msi", "MSI"), Do("await", "MSI"), Do("select", "MSI"),
            Do("pll_off", 0), cfg, Do("pll_on", 0), Do("await", "PLL"), Do("select", "PLL"),
            Do("switched", "PLL"), Do("stop_msi", 0)>>
    BY Glue_3_7
  <2> QED
    BY <1>1, <2>1, RunFromMsiIs
<1>3. <<Do(op, o), Do("await", o)>> \o (RunFromMsi \o StartPll(o, 2, 2)) =
         <<Do(op, o), Do("await", o),
           Do("start_msi", "MSI"), Do("await", "MSI"), Do("select", "MSI"),
           Do("pll_off", 0), cfg, Do("pll_on", 0), Do("await", "PLL"), Do("select", "PLL"),
           Do("switched", "PLL"), Do("stop_msi", 0)>>
  <2>1. <<Do(op, o), Do("await", o)>>
        \o <<Do("start_msi", "MSI"), Do("await", "MSI"), Do("select", "MSI"),
             Do("pll_off", 0), cfg, Do("pll_on", 0), Do("await", "PLL"), Do("select", "PLL"),
             Do("switched", "PLL"), Do("stop_msi", 0)>>
        = <<Do(op, o), Do("await", o),
            Do("start_msi", "MSI"), Do("await", "MSI"), Do("select", "MSI"),
            Do("pll_off", 0), cfg, Do("pll_on", 0), Do("await", "PLL"), Do("select", "PLL"),
            Do("switched", "PLL"), Do("stop_msi", 0)>>
    BY Glue_2_10
  <2> QED
    BY <1>2, <2>1
<1>4. <<Do(op, o), Do("await", o)>> \o (RunFromMsi \o StartPll(o, 2, 2)) \o Prescale(0, 1, 1) =
         <<Do(op, o), Do("await", o),
           Do("start_msi", "MSI"), Do("await", "MSI"), Do("select", "MSI"),
           Do("pll_off", 0), cfg, Do("pll_on", 0), Do("await", "PLL"), Do("select", "PLL"),
           Do("switched", "PLL"), Do("stop_msi", 0),
           Do("latency", 0), Do("pclk2", 1), Do("pclk1", 1)>>
  <2>1. <<Do(op, o), Do("await", o),
          Do("start_msi", "MSI"), Do("await", "MSI"), Do("select", "MSI"),
          Do("pll_off", 0), cfg, Do("pll_on", 0), Do("await", "PLL"), Do("select", "PLL"),
          Do("switched", "PLL"), Do("stop_msi", 0)>>
        \o <<Do("latency", 0), Do("pclk2", 1), Do("pclk1", 1)>>
        = <<Do(op, o), Do("await", o),
            Do("start_msi", "MSI"), Do("await", "MSI"), Do("select", "MSI"),
            Do("pll_off", 0), cfg, Do("pll_on", 0), Do("await", "PLL"), Do("select", "PLL"),
            Do("switched", "PLL"), Do("stop_msi", 0),
            Do("latency", 0), Do("pclk2", 1), Do("pclk1", 1)>>
    BY Glue_12_3
  <2> QED
    BY <1>3, <2>1 DEF Prescale
<1> QED
  BY <1>4 DEF cfg

\* SetSysClockToPLL, when there is a multiplier.
LEMMA PllIs ==
  ASSUME NEW o, NEW d, NEW mul, NEW lat, NEW d2, NEW d1
  PROVE  Start("restart", o)
            \o (RunFromMsi \o Prescale(lat, d2, d1) \o StartPll(o, d, mul))
         = <<Do("restart", o), Do("await", o),
             Do("start_msi", "MSI"), Do("await", "MSI"), Do("select", "MSI"),
             Do("latency", lat), Do("pclk2", d2), Do("pclk1", d1),
             Do("pll_off", 0), Do("pll_cfg", [osc |-> o, div |-> d, code |-> PllMulCode(mul)]),
             Do("pll_on", 0), Do("await", "PLL"),
             Do("select", "PLL"), Do("switched", "PLL"), Do("stop_msi", 0)>>
<1> DEFINE cfg == Do("pll_cfg", [osc |-> o, div |-> d, code |-> PllMulCode(mul)])
<1>1. StartPll(o, d, mul) =
         <<Do("pll_off", 0), cfg, Do("pll_on", 0), Do("await", "PLL"), Do("select", "PLL"),
           Do("switched", "PLL"), Do("stop_msi", 0)>>
  BY StartPllIs
<1> HIDE DEF cfg
<1>2. RunFromMsi \o Prescale(lat, d2, d1) =
         <<Do("start_msi", "MSI"), Do("await", "MSI"), Do("select", "MSI"),
           Do("latency", lat), Do("pclk2", d2), Do("pclk1", d1)>>
  BY RunFromMsiIs, Glue_3_3 DEF Prescale
<1>3. RunFromMsi \o Prescale(lat, d2, d1) \o StartPll(o, d, mul) =
         <<Do("start_msi", "MSI"), Do("await", "MSI"), Do("select", "MSI"),
           Do("latency", lat), Do("pclk2", d2), Do("pclk1", d1),
           Do("pll_off", 0), cfg, Do("pll_on", 0), Do("await", "PLL"), Do("select", "PLL"),
           Do("switched", "PLL"), Do("stop_msi", 0)>>
  BY <1>1, <1>2, Glue_6_7
<1>4. Start("restart", o) \o (RunFromMsi \o Prescale(lat, d2, d1) \o StartPll(o, d, mul)) =
         <<Do("restart", o), Do("await", o),
           Do("start_msi", "MSI"), Do("await", "MSI"), Do("select", "MSI"),
           Do("latency", lat), Do("pclk2", d2), Do("pclk1", d1),
           Do("pll_off", 0), cfg, Do("pll_on", 0), Do("await", "PLL"), Do("select", "PLL"),
           Do("switched", "PLL"), Do("stop_msi", 0)>>
  BY <1>3, Glue_2_13 DEF Start
<1> QED
  BY <1>4 DEF cfg

\* SetSysClock is the sequence of the boot.
LEMMA BootIsCode == SetSysClock = Code(Boot)
<1> DEFINE cfg == Do("pll_cfg", [osc |-> "HSE", div |-> 2, code |-> PllMulCode(16)])
<1>1. SetSysClock = Start("enable", "HSE") \o Prescale(1, 2, 4)
                    \o <<cfg, Do("pll_on", 0), Do("spin", "PLL"), Do("select", "PLL"),
                         Do("spin_switched", "PLL")>>
  <2>1. (64 - 1) \div 32 = 1
    OBVIOUS
  <2> QED
    BY <2>1 DEF SetSysClock
<1>2. cfg = Do("pll_cfg", Wanted(Boot)) /\ Shape(Boot) = "boot"
  BY DEF Wanted, Factor, Boot, Oscillators, Shape
<1> HIDE DEF cfg
<1>3. Start("enable", "HSE") \o Prescale(1, 2, 4) =
         <<Do("enable", "HSE"), Do("await", "HSE"),
           Do("latency", 1), Do("pclk2", 2), Do("pclk1", 4)>>
  BY Glue_2_3 DEF Start, Prescale
<1>4. SetSysClock =
         <<Do("enable", "HSE"), Do("await", "HSE"),
           Do("latency", 1), Do("pclk2", 2), Do("pclk1", 4),
           cfg, Do("pll_on", 0), Do("spin", "PLL"), Do("select", "PLL"),
           Do("spin_switched", "PLL")>>
  <2>1. <<Do("enable", "HSE"), Do("await", "HSE"),
          Do("latency", 1), Do("pclk2", 2), Do("pclk1", 4)>>
        \o <<cfg, Do("pll_on", 0), Do("spin", "PLL"), Do("select", "PLL"),
             Do("spin_switched", "PLL")>>
        = <<Do("enable", "HSE"), Do("await", "HSE"),
            Do("latency", 1), Do("pclk2", 2), Do("pclk1", 4),
            cfg, Do("pll_on", 0), Do("spin", "PLL"), Do("select", "PLL"),
            Do("spin_switched", "PLL")>>
    BY Glue_5_5
  <2> QED
    BY <1>1, <1>3, <2>1
<1> QED
  BY <1>2, <1>4 DEF Code

\* Every function is the sequence of its request.
LEMMA BodyIsCode == ASSUME NEW c, IsRequest(c) PROVE BodyOf(c) = Code(c)
<1>1. CASE Shape(c) = "direct"
  <2>1. c.to \in Oscillators /\ c.osc = c.to /\ c # Boot
    BY <1>1, Requests, Shapes
  <2>2. BodyOf(c) = <<Do(StartOp(c), c.osc), Do("await", c.osc)>>
                    \o SwitchTo(c.osc) \o Prescale(0, 1, 1)
    BY <1>1, <2>1 DEF BodyOf, SetSysClockToMSI, SetSysClockToHSI, SetSysClockToHSE, StartOp, Start,
                      Shape, Oscillators
  <2> QED
    BY <1>1, <2>2, DirectIs DEF Code
<1>2. CASE Shape(c) = "old"
  <2>1. c.to \in {"HSI", "HSE"} /\ c.osc = c.to /\ c # Boot /\ chip = "old"
    BY <1>2, Requests, Shapes DEF Oscillators, Shape
  <2>2. BodyOf(c) = <<Do(StartOp(c), c.osc), Do("await", c.osc)>>
                    \o (RunFromMsi \o StartPll(c.osc, 2, 2)) \o Prescale(0, 1, 1)
    BY <2>1 DEF BodyOf, SetSysClockToHSI, SetSysClockToHSE, StartOp, Start
  <2>3. Wanted(c) = [osc |-> c.osc, div |-> 2, code |-> PllMulCode(2)]
    BY <2>1 DEF Wanted, Factor, Oscillators
  <2> QED
    BY <1>2, <2>2, <2>3, OldIs DEF Code
<1>3. CASE Shape(c) = "pll"
  <2>1. c.to = "PLL" /\ MakesFactor(c) /\ c # Boot
    BY <1>3, Requests, Shapes
  <2> DEFINE mul == c.mhz \div (OscMHz(c.osc) \div c.div)
  <2>2. BodyOf(c) = Start("restart", c.osc)
           \o (RunFromMsi \o Prescale(c.mhz \div 32, Pclk2Div(c.mhz), Pclk1Div(c.mhz))
               \o StartPll(c.osc, c.div, mul))
    BY <2>1 DEF BodyOf, SetSysClockToPLL
  <2>3. Wanted(c) = [osc |-> c.osc, div |-> c.div, code |-> PllMulCode(mul)]
    BY <2>1 DEF Wanted, Factor, Oscillators
  <2> DEFINE lat == c.mhz \div 32
             d2 == Pclk2Div(c.mhz)
             d1 == Pclk1Div(c.mhz)
  <2> HIDE DEF mul, lat, d2, d1
  <2>4. BodyOf(c) =
          <<Do("restart", c.osc), Do("await", c.osc),
            Do("start_msi", "MSI"), Do("await", "MSI"), Do("select", "MSI"),
            Do("latency", lat), Do("pclk2", d2), Do("pclk1", d1),
            Do("pll_off", 0), Do("pll_cfg", Wanted(c)), Do("pll_on", 0), Do("await", "PLL"),
            Do("select", "PLL"), Do("switched", "PLL"), Do("stop_msi", 0)>>
    <3>1. BodyOf(c) = Start("restart", c.osc)
             \o (RunFromMsi \o Prescale(lat, d2, d1) \o StartPll(c.osc, c.div, mul))
      BY <2>2 DEF lat, d2, d1
    <3>2. Start("restart", c.osc)
             \o (RunFromMsi \o Prescale(lat, d2, d1) \o StartPll(c.osc, c.div, mul)) =
             <<Do("restart", c.osc), Do("await", c.osc),
               Do("start_msi", "MSI"), Do("await", "MSI"), Do("select", "MSI"),
               Do("latency", lat), Do("pclk2", d2), Do("pclk1", d1), Do("pll_off", 0),
               Do("pll_cfg", [osc |-> c.osc, div |-> c.div, code |-> PllMulCode(mul)]),
               Do("pll_on", 0), Do("await", "PLL"),
               Do("select", "PLL"), Do("switched", "PLL"), Do("stop_msi", 0)>>
      BY PllIs
    <3> QED
      BY <3>1, <3>2, <2>3
  <2> QED
    BY <1>3, <2>4 DEF Code, lat, d2, d1
<1>4. CASE Shape(c) = "fail"
  <2>1. BodyOf(c) = Start("restart", c.osc) \o <<Do("fail", 0)>>
    BY <1>4, Requests DEF BodyOf, SetSysClockToPLL, Shape
  <2> QED
    BY <1>4, <2>1, Glue_2_1 DEF Start, Code
<1> QED
  BY <1>1, <1>2, <1>3, <1>4, Shapes, Requests

-----------------------------------------------------------------------------
(* Where in the sequences an operation can be, and with which argument.    *)

Table(c, i, s, op, arg) ==
    /\ op = "start_msi" => arg = "MSI" /\ \/ Shape(c) = "direct" /\ i = 1 /\ c.osc = "MSI"
                                          \/ Shape(c) \in MsiShapes /\ i = 3
    /\ op = "enable" => i = 1 /\ arg = c.osc /\ Shape(c) \in {"boot", "direct", "old"}
    /\ op = "restart" => i = 1 /\ arg = c.osc /\ arg \in {"HSI", "HSE"} /\ Shape(c) # "boot"
    /\ op = "await" => \/ i = 2 /\ arg = c.osc
                       \/ Shape(c) \in MsiShapes /\ i = 4 /\ arg = "MSI"
                       \/ Shape(c) \in MsiShapes /\ s = 9 /\ arg = "PLL"
    /\ op = "spin" => Shape(c) = "boot" /\ s = 9 /\ arg = "PLL"
    /\ op = "select" => \/ Shape(c) = "direct" /\ i = 3 /\ arg = c.osc
                        \/ Shape(c) \in MsiShapes /\ i = 5 /\ arg = "MSI"
                        \/ Shape(c) \in PllShapes /\ s = 10 /\ arg = "PLL"
    /\ op = "switched" => \/ Shape(c) = "direct" /\ i = 4 /\ arg = c.osc
                          \/ Shape(c) \in MsiShapes /\ s = 11 /\ arg = "PLL"
    /\ op = "spin_switched" => Shape(c) = "boot" /\ s = 11 /\ arg = "PLL"
    /\ op = "latency" => \/ Shape(c) = "boot" /\ i = 3 /\ arg = 1
                         \/ Shape(c) = "direct" /\ i = 5 /\ arg = 0
                         \/ Shape(c) = "old" /\ i = 13 /\ arg = 0
                         \/ Shape(c) = "pll" /\ i = 6 /\ arg = c.mhz \div 32
    /\ op = "pclk2" => \/ Shape(c) = "boot" /\ i = 4 /\ arg = 2
                       \/ Shape(c) = "direct" /\ i = 6 /\ arg = 1
                       \/ Shape(c) = "old" /\ i = 14 /\ arg = 1
                       \/ Shape(c) = "pll" /\ i = 7 /\ arg = Pclk2Div(c.mhz)
    /\ op = "pclk1" => \/ Shape(c) = "boot" /\ i = 5 /\ arg = 4
                       \/ Shape(c) = "direct" /\ i = 7 /\ arg = 1
                       \/ Shape(c) = "old" /\ i = 15 /\ arg = 1
                       \/ Shape(c) = "pll" /\ i = 8 /\ arg = Pclk1Div(c.mhz)
    /\ op = "pll_off" => Shape(c) \in MsiShapes /\ s = 6
    /\ op = "pll_cfg" => Shape(c) \in PllShapes /\ s = 7 /\ arg = Wanted(c)
    /\ op = "pll_on" => Shape(c) \in PllShapes /\ s = 8
    /\ op = "stop_msi" => Shape(c) \in MsiShapes /\ s = 12
    /\ op = "fail" => Shape(c) = "fail" /\ i = 3

\* How long the sequences are.
LEMMA CodeLength ==
  ASSUME NEW c, c = Boot \/ IsRequest(c)
  PROVE  /\ Len(Code(c)) \in Nat \ {0}
         /\ Shape(c) = "boot" => Len(Code(c)) = 10
         /\ Shape(c) = "direct" => Len(Code(c)) = 7
         /\ Shape(c) \in MsiShapes => Len(Code(c)) = 15
         /\ Shape(c) = "fail" => Len(Code(c)) = 3
<1>1. CASE Shape(c) = "boot"
  BY <1>1 DEF Code, MsiShapes
<1>2. CASE Shape(c) = "direct"
  BY <1>2 DEF Code, MsiShapes
<1>3. CASE Shape(c) = "old"
  BY <1>3 DEF Code, MsiShapes
<1>4. CASE Shape(c) = "pll"
  BY <1>4 DEF Code, MsiShapes
<1>5. CASE Shape(c) = "fail"
  BY <1>5 DEF Code, MsiShapes
<1> QED
  BY <1>1, <1>2, <1>3, <1>4, <1>5, Shapes

\* They are sequences of their operations.
LEMMA CodeIsSeq ==
  ASSUME NEW c, c = Boot \/ IsRequest(c)
  PROVE  Code(c) \in Seq({Code(c)[i] : i \in 1 .. Len(Code(c))})
<1> DEFINE S == {Code(c)[i] : i \in 1 .. Len(Code(c))}
<1>1. \A i \in 1 .. Len(Code(c)) : Code(c)[i] \in S
  OBVIOUS
<1>2. CASE Shape(c) = "boot"
  <2>1. Len(Code(c)) = 10
    BY <1>2, CodeLength DEF MsiShapes
  <2> HIDE DEF S
  <2>2. <<Code(c)[1], Code(c)[2], Code(c)[3], Code(c)[4],
                      Code(c)[5], Code(c)[6], Code(c)[7], Code(c)[8],
                      Code(c)[9], Code(c)[10]>> \in Seq(S)
    BY <1>1, <2>1
  <2>3. Code(c) = <<Code(c)[1], Code(c)[2], Code(c)[3], Code(c)[4],
                      Code(c)[5], Code(c)[6], Code(c)[7], Code(c)[8],
                      Code(c)[9], Code(c)[10]>>
    BY <1>2 DEF Code
  <2> QED
    BY <2>2, <2>3 DEF S
<1>3. CASE Shape(c) = "direct"
  <2>1. Len(Code(c)) = 7
    BY <1>3, CodeLength DEF MsiShapes
  <2> HIDE DEF S
  <2>2. <<Code(c)[1], Code(c)[2], Code(c)[3], Code(c)[4],
                      Code(c)[5], Code(c)[6], Code(c)[7]>> \in Seq(S)
    BY <1>1, <2>1
  <2>3. Code(c) = <<Code(c)[1], Code(c)[2], Code(c)[3], Code(c)[4],
                      Code(c)[5], Code(c)[6], Code(c)[7]>>
    BY <1>3 DEF Code
  <2> QED
    BY <2>2, <2>3 DEF S
<1>4. CASE Shape(c) = "old"
  <2>1. Len(Code(c)) = 15
    BY <1>4, CodeLength DEF MsiShapes
  <2> HIDE DEF S
  <2>2. <<Code(c)[1], Code(c)[2], Code(c)[3], Code(c)[4],
                      Code(c)[5], Code(c)[6], Code(c)[7], Code(c)[8],
                      Code(c)[9], Code(c)[10], Code(c)[11], Code(c)[12],
                      Code(c)[13], Code(c)[14], Code(c)[15]>> \in Seq(S)
    BY <1>1, <2>1
  <2>3. Code(c) = <<Code(c)[1], Code(c)[2], Code(c)[3], Code(c)[4],
                      Code(c)[5], Code(c)[6], Code(c)[7], Code(c)[8],
                      Code(c)[9], Code(c)[10], Code(c)[11], Code(c)[12],
                      Code(c)[13], Code(c)[14], Code(c)[15]>>
    BY <1>4 DEF Code
  <2> QED
    BY <2>2, <2>3 DEF S
<1>5. CASE Shape(c) = "pll"
  <2>1. Len(Code(c)) = 15
    BY <1>5, CodeLength DEF MsiShapes
  <2> HIDE DEF S
  <2>2. <<Code(c)[1], Code(c)[2], Code(c)[3], Code(c)[4],
                      Code(c)[5], Code(c)[6], Code(c)[7], Code(c)[8],
                      Code(c)[9], Code(c)[10], Code(c)[11], Code(c)[12],
                      Code(c)[13], Code(c)[14], Code(c)[15]>> \in Seq(S)
    BY <1>1, <2>1
  <2>3. Code(c) = <<Code(c)[1], Code(c)[2], Code(c)[3], Code(c)[4],
                      Code(c)[5], Code(c)[6], Code(c)[7], Code(c)[8],
                      Code(c)[9], Code(c)[10], Code(c)[11], Code(c)[12],
                      Code(c)[13], Code(c)[14], Code(c)[15]>>
    BY <1>5 DEF Code
  <2> QED
    BY <2>2, <2>3 DEF S
<1>6. CASE Shape(c) = "fail"
  <2>1. Len(Code(c)) = 3
    BY <1>6, CodeLength DEF MsiShapes
  <2> HIDE DEF S
  <2>2. <<Code(c)[1], Code(c)[2], Code(c)[3]>> \in Seq(S)
    BY <1>1, <2>1
  <2>3. Code(c) = <<Code(c)[1], Code(c)[2], Code(c)[3]>>
    BY <1>6 DEF Code
  <2> QED
    BY <2>2, <2>3 DEF S
<1> QED
  BY <1>2, <1>3, <1>4, <1>5, <1>6, Shapes

\* The operations are where the table says.
LEMMA Where ==
  ASSUME NEW c, c = Boot \/ IsRequest(c), NEW i \in 1 .. Len(Code(c))
  PROVE  Table(c, i, StageOf(c, i), Code(c)[i].op, Code(c)[i].arg)
<1>1. CASE Shape(c) = "boot"
  <2>1. i \in 1 .. 10 /\ c = Boot
    BY <1>1, CodeLength, Shapes DEF MsiShapes
  <2> QED
    BY <1>1, <2>1 DEF Code, Do, Table, StageOf, MsiShapes, PllShapes, Boot
<1>2. CASE Shape(c) = "direct"
  <2>1. i \in 1 .. 7 /\ c.to \in Oscillators /\ c.osc = c.to
    BY <1>2, CodeLength, Shapes, Requests DEF Boot, Oscillators, MsiShapes
  <2> QED
    BY <1>2, <2>1 DEF Code, Do, Table, StageOf, MsiShapes, PllShapes, StartOp, Oscillators
<1>3. CASE Shape(c) = "old"
  <2>1. i \in 1 .. 15 /\ c.to \in {"HSI", "HSE"} /\ c.osc = c.to
    BY <1>3, CodeLength, Shapes, Requests DEF Boot, Oscillators, MsiShapes
  <2> QED
    BY <1>3, <2>1 DEF Code, Do, Table, StageOf, MsiShapes, PllShapes, StartOp
<1>4. CASE Shape(c) = "pll"
  <2>1. i \in 1 .. 15 /\ c.osc \in {"HSI", "HSE"}
    BY <1>4, CodeLength, Shapes DEF MsiShapes
  <2> QED
    BY <1>4, <2>1 DEF Code, Do, Table, StageOf, MsiShapes, PllShapes
<1>5. CASE Shape(c) = "fail"
  <2>1. i \in 1 .. 3 /\ c.osc \in {"HSI", "HSE"}
    BY <1>5, CodeLength, Shapes DEF MsiShapes
  <2> QED
    BY <1>5, <2>1 DEF Code, Do, Table, StageOf, MsiShapes, PllShapes
<1> QED
  BY <1>1, <1>2, <1>3, <1>4, <1>5, Shapes

\* The sequence is that of the call, whatever else changes.
LEMMA CallFixed ==
  ASSUME UNCHANGED <<call, chip>>
  PROVE  /\ Shape(call)' = Shape(call) /\ Code(call)' = Code(call)
         /\ SetsPll' = SetsPll /\ ByMsi' = ByMsi
<1>1. Shape(call)' = Shape(call)
  BY DEF Shape
<1>2. Wanted(call)' = Wanted(call) /\ StartOp(call)' = StartOp(call)
      /\ Pclk1Div(call.mhz)' = Pclk1Div(call.mhz) /\ Pclk2Div(call.mhz)' = Pclk2Div(call.mhz)
  OBVIOUS
<1>3. Code(call)' = Code(call)
  BY <1>1, <1>2 DEF Code
<1> QED
  BY <1>1, <1>3 DEF SetsPll, ByMsi

\* The place in the sequence does not change while nothing is performed.
LEMMA PlaceFixed ==
  ASSUME UNCHANGED <<call, chip, prog>>
  PROVE  /\ point' = point /\ stage' = stage /\ Located' = Located
         /\ Shape(call)' = Shape(call) /\ SetsPll' = SetsPll /\ ByMsi' = ByMsi
<1>1. point' = point
  BY CallFixed DEF point
<1>2. stage' = stage
  BY <1>1, CallFixed DEF stage, StageOf
<1> QED
  BY <1>1, <1>2, CallFixed DEF Located

\* An operation is performed where the table says, and the next one is next.
LEMMA Performed ==
  ASSUME ClockTypeOK, Located, NEW o, o # "fail", Performs(o)
  PROVE  /\ point \in 1 .. Len(Code(call)) /\ Table(call, point, stage, o, Arg)
         /\ point' = point + 1 /\ stage' = stage + 1
         /\ Located'
         /\ Shape(call)' = Shape(call) /\ SetsPll' = SetsPll /\ ByMsi' = ByMsi
<1> DEFINE S == {Code(call)[i] : i \in 1 .. Len(Code(call))}
<1>1. prog \in Seq(S) /\ prog # <<>> /\ prog' = Tail(prog) /\ UNCHANGED <<call, chip>>
  BY DEF Performs, Located
<1>2. Len(prog) \in Nat \ {0} /\ Len(Tail(prog)) = Len(prog) - 1 /\ Tail(prog) \in Seq(S)
      /\ (\A i \in 1 .. Len(prog) - 1 : Tail(prog)[i] = prog[i + 1]) /\ Head(prog) = prog[1]
  <2> HIDE DEF S
  <2> QED
    BY <1>1
<1>3. Len(Code(call)) \in Nat /\ (call = Boot \/ IsRequest(call))
  <2>1. call = Boot \/ IsRequest(call)
    BY DEF ClockTypeOK
  <2> QED
    BY <2>1, CodeLength
<1>4. point \in 1 .. Len(Code(call)) /\ Head(prog) = Code(call)[point]
  BY <1>2, <1>3 DEF Located, point
<1>5. Table(call, point, stage, o, Arg)
  BY <1>3, <1>4, Where DEF Performs, Arg, stage
<1>6. point' = point + 1
  BY <1>1, <1>2, <1>3, CallFixed DEF point
<1>7. stage' = stage + 1
  BY <1>1, <1>4, <1>6, CallFixed DEF stage, StageOf
<1>8. Located'
  <2>1. Len(prog') <= Len(Code(call)')
    BY <1>1, <1>2, <1>3, CallFixed DEF Located
  <2>2. prog' \in Seq({Code(call)'[i] : i \in 1 .. Len(Code(call)')})
    BY <1>1, <1>2, CallFixed
  <2>3. \A i \in 1 .. Len(prog') : prog'[i] = Code(call)'[point' + i - 1]
    <3> TAKE i \in 1 .. Len(prog')
    <3>1. i \in 1 .. Len(prog) - 1 /\ prog'[i] = prog[i + 1] /\ i + 1 \in 1 .. Len(prog)
      BY <1>1, <1>2
    <3>2. prog[i + 1] = Code(call)[point + (i + 1) - 1]
      BY <3>1 DEF Located
    <3>3. point + (i + 1) - 1 = point' + i - 1
      BY <1>4, <1>6, <3>1
    <3> QED
      BY <1>1, <3>1, <3>2, <3>3, CallFixed
  <2>4. Shape(call)' = "fail" => prog' # <<>>
    <3> SUFFICES ASSUME Shape(call) = "fail", prog' = <<>> PROVE FALSE
      BY <1>1, CallFixed
    <3>1. Len(prog) = 1
      <4>1. Tail(prog) = <<>> /\ Len(<<>>) = 0
        BY <1>1, EmptySeq
      <4>2. Len(prog) \in Nat /\ Len(Tail(prog)) = Len(prog) - 1
        BY <1>2
      <4>3. Len(Tail(prog)) = 0
        BY <4>1, Zenon
      <4> QED
        BY <4>2, <4>3
    <3>2. Len(Code(call)) = 3 /\ Code(call)[3].op = "fail"
      BY DEF Code, Do
    <3> QED
      BY <1>2, <1>4, <3>1, <3>2 DEF point, Performs
  <2> QED
    BY <2>1, <2>2, <2>3, <2>4 DEF Located
<1> QED
  BY <1>1, <1>4, <1>5, <1>6, <1>7, <1>8, CallFixed

\* A call begins with the first operation.
LEMMA Begun ==
  ASSUME NEW c, IsRequest(c), call' = c, prog' = BodyOf(c), UNCHANGED chip
  PROVE  Located' /\ point' = 1 /\ Shape(call)' = Shape(c)
<1>1. Shape(call)' = Shape(c) /\ Code(call)' = Code(c)
  <2>1. Shape(call)' = Shape(c)
    BY DEF Shape
  <2>2. Wanted(call)' = Wanted(c) /\ StartOp(call)' = StartOp(c)
        /\ Pclk1Div(call.mhz)' = Pclk1Div(c.mhz) /\ Pclk2Div(call.mhz)' = Pclk2Div(c.mhz)
    OBVIOUS
  <2> QED
    BY <2>1, <2>2 DEF Code
<1> DEFINE code == Code(c)
           S == {code[i] : i \in 1 .. Len(code)}
<1>2. prog' = code
  BY BodyIsCode
<1>3. Len(code) \in Nat \ {0} /\ code \in Seq(S)
  <2> HIDE DEF code, S
  <2>1. Len(code) \in Nat \ {0}
    BY CodeLength DEF code
  <2> QED
    BY <2>1, CodeIsSeq DEF code, S
<1>4. point' = 1
  <2> HIDE DEF code
  <2> QED
    BY <1>1, <1>2, <1>3 DEF point, code
<1>5. Located'
  <2>1. Shape(c) = "fail" => code # <<>>
    BY <1>3
  <2> QED
    BY <1>1, <1>2, <1>3, <1>4, <2>1 DEF Located
<1> QED
  BY <1>1, <1>4, <1>5

-----------------------------------------------------------------------------
(* The source of SYSCLK always runs. *)

StageFacts ==
    /\ point \in Nat \ {0}
    /\ Shape(call) = "boot" => stage = point + 1
    /\ Shape(call) = "pll" => stage = point - 3
    /\ Shape(call) \notin {"boot", "pll"} => stage = point

\* The two ways to count agree.
LEMMA StagesAre == ClockTypeOK /\ Located => StageFacts
<1> SUFFICES ASSUME ClockTypeOK, Located PROVE StageFacts
  OBVIOUS
<1>1. Len(Code(call)) \in Nat
  BY CodeLength DEF ClockTypeOK
<1>2. Len(prog) \in Nat
  BY DEF Located
<1> QED
  BY <1>1, <1>2 DEF Located, StageFacts, point, stage, StageOf

\* What performing the operation o does to all but the hardware.
Moved(o) ==
    /\ result = "none" /\ UNCHANGED <<call, result, plan, chip, entry, mode>>
    /\ Settled
    /\ StageFacts /\ Table(call, point, stage, o, Arg)
    /\ point' = point + 1 /\ stage' = stage + 1
    /\ Shape(call)' = Shape(call) /\ SetsPll' = SetsPll /\ ByMsi' = ByMsi
    /\ Located'

\* An operation moves the running function on by one.
LEMMA Moves ==
  ASSUME ClockIInv, NEW o, o # "fail", Performs(o)
  PROVE  Moved(o)
<1>1. prog # <<>> /\ Settled /\ UNCHANGED <<call, result, plan, chip, entry, mode>>
  BY DEF Performs
<1>2. ClockTypeOK /\ result = "none" /\ Located
  BY <1>1 DEF ClockIInv, ClockTypeOK
<1> QED
  BY <1>1, <1>2, Performed, StagesAre DEF Moved

\* Nothing but the hardware changes.
Stays ==
    /\ UNCHANGED <<call, result, plan, chip, entry, mode, prog>>
    /\ point' = point /\ stage' = stage
    /\ Shape(call)' = Shape(call) /\ SetsPll' = SetsPll /\ ByMsi' = ByMsi
    /\ result = "none" => StageFacts /\ Located'

\* The hardware does not move it.
LEMMA HardwareStays ==
  ASSUME ClockIInv, Hardware \/ DisableMsi PROVE Stays
<1>1. UNCHANGED <<call, result, plan, chip, entry, mode, prog>>
  BY DEF Hardware, HwSwitch, HwReady, DisableMsi
<1>2. result = "none" => Located /\ StageFacts
  BY StagesAre DEF ClockIInv
<1> QED
  BY <1>1, <1>2, PlaceFixed DEF Stays

\* A function returns from where it is.
Returned(status) ==
    /\ result = "none" /\ result' = status /\ prog' = <<>>
    /\ UNCHANGED <<call, plan, hw, msi_ready_flag, chip, entry, mode>>
    /\ Shape(call)' = Shape(call) /\ SetsPll' = SetsPll /\ ByMsi' = ByMsi
    /\ StageFacts

\* A wait that times out, where the table says there is one.
Failed ==
    /\ Returned("ERROR")
    /\ \/ Shape(call) = "fail" /\ point = 3
       \/ Head(prog).op = "await" /\ Arg \notin rdy /\ Table(call, point, stage, "await", Arg)
       \/ /\ Head(prog).op = "switched" /\ Table(call, point, stage, "switched", Arg)
          /\ sws # Arg /\ (lag = "long" \/ Arg \notin rdy)

\* The next operation is in the table.
LEMMA NextOperation ==
  ASSUME ClockIInv, prog # <<>>
  PROVE  result = "none" /\ StageFacts /\ Table(call, point, stage, Head(prog).op, Arg)
<1>1. ClockTypeOK /\ result = "none" /\ Located
  BY DEF ClockIInv, ClockTypeOK
<1>2. Len(Code(call)) \in Nat /\ (call = Boot \/ IsRequest(call))
  BY <1>1, CodeLength DEF ClockTypeOK
<1>3. Len(prog) \in Nat \ {0} /\ Head(prog) = prog[1]
  BY <1>1, EmptySeq DEF Located
<1>4. point \in 1 .. Len(Code(call)) /\ Head(prog) = Code(call)[point]
  BY <1>1, <1>2, <1>3 DEF Located, point
<1> QED
  BY <1>1, <1>2, <1>4, Where, StagesAre DEF Arg, stage

\* The ways to return ERROR.
LEMMA Fails ==
  ASSUME ClockIInv, StartTimeout \/ SwitchTimeout \/ ReturnNoFactor PROVE Failed
<1>1. prog # <<>> /\ Return("ERROR")
  BY DEF StartTimeout, SwitchTimeout, ReturnNoFactor
<1>2. Returned("ERROR")
  BY <1>1, NextOperation, CallFixed DEF Return, Returned
<1>3. CASE StartTimeout
  BY <1>1, <1>2, <1>3, NextOperation DEF StartTimeout, Failed
<1>4. CASE SwitchTimeout
  BY <1>1, <1>2, <1>4, NextOperation DEF SwitchTimeout, Failed
<1>5. CASE ReturnNoFactor
  BY <1>1, <1>2, <1>5, NextOperation DEF ReturnNoFactor, Failed, Table
<1> QED
  BY <1>3, <1>4, <1>5

\* The end of a function.
Succeeded ==
    /\ Returned("SUCCESS") /\ Settled
    /\ Shape(call) # "fail"
    /\ Shape(call) = "boot" => point = 11 /\ stage = 12
    /\ Shape(call) = "direct" => point = 8
    /\ ByMsi => point = 16 /\ stage >= 13

\* SUCCESS is returned from the end.
LEMMA Succeeds == ASSUME ClockIInv, ReturnSuccess PROVE Succeeded
<1>1. prog = <<>> /\ result = "none" /\ Return("SUCCESS") /\ Settled
  BY DEF ReturnSuccess
<1>2. ClockTypeOK /\ Located /\ StageFacts
  BY <1>1, StagesAre DEF ClockIInv
<1>3. Returned("SUCCESS")
  BY <1>1, <1>2, CallFixed DEF Return, Returned
<1>4. Len(prog) = 0 /\ Shape(call) # "fail"
  BY <1>1, <1>2 DEF Located
<1>5. point = Len(Code(call)) + 1
  BY <1>2, <1>4, CodeLength DEF point, ClockTypeOK
<1>6. call = Boot \/ IsRequest(call)
  BY <1>2 DEF ClockTypeOK
<1>7. /\ Shape(call) = "boot" => point = 11
      /\ Shape(call) = "direct" => point = 8
      /\ Shape(call) \in MsiShapes => point = 16
  <2>1. /\ Shape(call) = "boot" => Len(Code(call)) = 10
        /\ Shape(call) = "direct" => Len(Code(call)) = 7
        /\ Shape(call) \in MsiShapes => Len(Code(call)) = 15
    BY <1>6, CodeLength
  <2>2. ASSUME NEW n \in Nat, Len(Code(call)) = n PROVE point = n + 1
    BY <1>5, <2>2
  <2>3. Len(Code(call)) = 10 => point = 11
    BY <2>2
  <2>4. Len(Code(call)) = 7 => point = 8
    BY <2>2
  <2>5. Len(Code(call)) = 15 => point = 16
    BY <2>2
  <2> QED
    BY <2>1, <2>3, <2>4, <2>5
<1>8. Shape(call) = "boot" => stage = 12
  BY <1>2, <1>7 DEF StageFacts
<1>9. ByMsi => point = 16 /\ stage >= 13
  BY <1>2, <1>7 DEF StageFacts, ByMsi, MsiShapes
<1> QED
  BY <1>1, <1>3, <1>4, <1>7, <1>8, <1>9 DEF Succeeded

\* What dri_ClockConfig_Init calls.
LEMMA PlanStep ==
  ASSUME plan \in InitPlans, plan # <<>>
  PROVE  IsRequest(Head(plan)) /\ Head(plan).mhz <= 64 /\ Tail(plan) \in InitPlans
<1>1. IsRequest(Pll64) /\ Pll64.mhz <= 64
  BY DEF IsRequest, Pll64
<1>2. ASSUME NEW o \in Oscillators PROVE IsRequest(Direct(o)) /\ Direct(o).mhz <= 64
  BY DEF IsRequest, Direct, OscMHz
<1>3. CASE plan = <<Pll64>>
  <2>1. Head(plan) = Pll64 /\ Tail(plan) = <<>>
    BY <1>3
  <2> QED
    BY <1>1, <2>1 DEF InitPlans
<1>4. CASE plan = <<Direct("HSE"), Pll64>>
  <2>1. Head(plan) = Direct("HSE") /\ Tail(plan) = <<Pll64>>
    BY <1>4
  <2> QED
    BY <1>2, <2>1 DEF InitPlans, Oscillators
<1>5. CASE plan = <<Direct("MSI"), Direct("HSE"), Pll64>>
  <2>1. Head(plan) = Direct("MSI") /\ Tail(plan) = <<Direct("HSE"), Pll64>>
    BY <1>5
  <2> QED
    BY <1>2, <2>1 DEF InitPlans, Oscillators
<1> QED
  BY <1>3, <1>4, <1>5 DEF InitPlans

\* A call begins.
Begins(c) ==
    /\ IsRequest(c) /\ result # "none" /\ result' = "none" /\ call' = c
    /\ entry' = sws /\ Settled
    /\ UNCHANGED <<hw, chip, mode>> /\ msi_ready_flag' = FALSE
    /\ plan' \in InitPlans
    /\ Located' /\ point' = 1 /\ Shape(call)' = Shape(c) /\ StageFacts'

\* Both callers begin with a request at its first operation.
LEMMA Calling ==
  ASSUME ClockIInv, InitCall \/ AnyCall
  PROVE  \E c : /\ Begins(c)
                /\ \/ plan # <<>> /\ c = Head(plan) /\ plan' = Tail(plan)
                   \/ mode.caller = "any" /\ c \in Calls /\ plan' = plan
<1>1. \E c : /\ Begin(c) /\ IsRequest(c) /\ plan' \in InitPlans
             /\ \/ plan # <<>> /\ c = Head(plan) /\ plan' = Tail(plan)
                \/ mode.caller = "any" /\ c \in Calls /\ plan' = plan
  <2>1. CASE InitCall
    <3>1. plan # <<>> /\ Begin(Head(plan)) /\ plan' = Tail(plan) /\ plan \in InitPlans
      BY <2>1 DEF InitCall, ClockIInv, ClockTypeOK
    <3> QED
      BY <3>1, PlanStep
  <2>2. CASE AnyCall
    BY <2>2, ClockAssumption DEF AnyCall, ClockIInv, ClockTypeOK
  <2> QED
    BY <2>1, <2>2
<1>2. PICK c : /\ Begin(c) /\ IsRequest(c) /\ plan' \in InitPlans
               /\ \/ plan # <<>> /\ c = Head(plan) /\ plan' = Tail(plan)
                  \/ mode.caller = "any" /\ c \in Calls /\ plan' = plan
  BY <1>1
<1>3. /\ result # "none" /\ result' = "none" /\ call' = c /\ prog' = BodyOf(c)
      /\ entry' = sws /\ UNCHANGED <<hw, chip, mode>> /\ msi_ready_flag' = FALSE /\ Settled
  BY <1>2 DEF Begin, Idle
<1>4. Located' /\ point' = 1 /\ Shape(call)' = Shape(c)
  BY <1>2, <1>3, Begun
<1>5. StageFacts'
  BY <1>4 DEF StageFacts, stage, StageOf
<1> QED
  BY <1>2, <1>3, <1>4, <1>5 DEF Begins

\* The reset state.
LEMMA ClockInit == Init => ClockIInv
<1> SUFFICES ASSUME Init PROVE ClockIInv
  OBVIOUS
<1>1. call = Boot /\ prog = Code(call) /\ Shape(call) = "boot"
  BY BootIsCode DEF Init, Shape
<1>2. Located /\ point = 1
  <2>1. Len(Code(call)) \in Nat \ {0}
        /\ Code(call) \in Seq({Code(call)[i] : i \in 1 .. Len(Code(call))})
    BY <1>1, CodeLength, CodeIsSeq
  <2>2. point = 1
    BY <1>1, <2>1 DEF point
  <2> QED
    BY <1>1, <2>1, <2>2 DEF Located
<1>3. ClockTypeOK
  <2>1. plan \in InitPlans
    BY DEF Init, InitPlans
  <2> QED
    BY <2>1, ClockAssumption DEF Init, ClockTypeOK, Sources, Oscillators
<1>4. stage = 2
  BY <1>1, <1>2 DEF stage, StageOf
<1>5. Alive /\ WaitedReady /\ Selected
  BY <1>1, <1>2, <1>4 DEF Init, Alive, WaitedReady, Selected, SetsPll, ByMsi, PllShapes, MsiShapes
<1> QED
  BY <1>2, <1>3, <1>5 DEF ClockIInv

\* Types.
LEMMA ClockTypeStep == ClockIInv /\ [Next]_vars => ClockTypeOK'
<1> SUFFICES ASSUME ClockIInv, [Next]_vars PROVE ClockTypeOK'
  OBVIOUS
<1>1. ClockTypeOK
  BY DEF ClockIInv
<1> USE <1>1 DEF Sources, Oscillators
<1>2. ASSUME NEW o, o # "fail", Performs(o)
      PROVE  /\ Moved(o) /\ UNCHANGED <<call, result, plan, chip, entry, mode>>
             /\ (result' # "none" => prog' = <<>>)
  BY <1>2, Moves DEF Moved
<1>3. call = Boot \/ IsRequest(call)
  BY DEF ClockTypeOK
<1>4. call.osc \in Oscillators
  BY <1>3, Shapes
<1>5. CASE StartMsi
  BY <1>2, <1>5 DEF StartMsi, ClockTypeOK
<1>6. CASE EnableOsc
  <2>1. Arg = call.osc
    BY <1>2, <1>6 DEF EnableOsc, Moved, Table
  <2>2. rdy' \subseteq on' /\ on' \subseteq Sources
    <3>1. rdy \subseteq on /\ on \subseteq Sources /\ call.osc \in Sources
      BY <1>4 DEF ClockTypeOK
    <3>2. on' = on \cup {call.osc} /\ rdy' \subseteq rdy
      BY <1>6, <2>1 DEF EnableOsc
    <3> QED
      BY <3>1, <3>2
  <2> QED
    BY <1>2, <1>6, <2>2 DEF EnableOsc, ClockTypeOK
<1>7. CASE RestartOsc
  <2>1. Arg = call.osc
    BY <1>2, <1>7 DEF RestartOsc, Moved, Table
  <2>2. rdy' \subseteq on' /\ on' \subseteq Sources
    <3>1. rdy \subseteq on /\ on \subseteq Sources /\ call.osc \in Sources
      BY <1>4 DEF ClockTypeOK
    <3>2. on' = on \cup {call.osc} /\ rdy' \subseteq rdy
      BY <1>7, <2>1 DEF RestartOsc
    <3> QED
      BY <3>1, <3>2
  <2> QED
    BY <1>2, <1>7, <2>2 DEF RestartOsc, ClockTypeOK
<1>8. CASE Ready
  BY <1>2, <1>8 DEF Ready, hw, ClockTypeOK
<1>9. CASE Switched
  BY <1>2, <1>9 DEF Switched, hw, ClockTypeOK
<1>10. CASE Select
  <2>1. Arg \in Sources
    BY <1>2, <1>4, <1>10 DEF Select, Moved, Table
  <2> QED
    BY <1>2, <1>10, <2>1 DEF Select, ClockTypeOK
<1>11. CASE SetDivider
  <2>1. CASE Performs("latency")
    <3>1. Arg \in Nat /\ latency' = Arg /\ UNCHANGED <<div1, div2>>
      <4>1. Arg \in {0, 1} \/ (Shape(call) = "pll" /\ Arg = call.mhz \div 32)
        BY <1>2, <2>1 DEF Moved, Table
      <4>2. Shape(call) = "pll" => call.mhz \in Nat
        BY <1>3, Shapes, Requests
      <4>3. latency' = Arg /\ UNCHANGED <<div1, div2>>
        BY <1>11, <2>1 DEF SetDivider, Performs
      <4> QED
        BY <4>1, <4>2, <4>3
    <3> QED
      BY <1>2, <1>11, <2>1, <3>1 DEF SetDivider, ClockTypeOK
  <2>2. CASE Performs("pclk2")
    <3>1. Arg \in {1, 2} /\ div2' = Arg /\ UNCHANGED <<latency, div1>>
      BY <1>2, <1>11, <2>2 DEF Moved, Table, Pclk2Div, SetDivider, Performs
    <3> QED
      BY <1>2, <1>11, <2>2, <3>1 DEF SetDivider, ClockTypeOK
  <2>3. CASE Performs("pclk1")
    <3>1. Arg \in {1, 2, 4} /\ div1' = Arg /\ UNCHANGED <<latency, div2>>
      BY <1>2, <1>11, <2>3 DEF Moved, Table, Pclk1Div, SetDivider, Performs
    <3> QED
      BY <1>2, <1>11, <2>3, <3>1 DEF SetDivider, ClockTypeOK
  <2> QED
    BY <1>11, <2>1, <2>2, <2>3 DEF SetDivider
<1>12. CASE PllOff
  BY <1>2, <1>12 DEF PllOff, ClockTypeOK
<1>13. CASE PllCfg
  <2>1. Arg = Wanted(call) /\ Shape(call) \in PllShapes
    BY <1>2, <1>13 DEF PllCfg, Moved, Table
  <2>2. Arg.osc \in {"HSI", "HSE"} /\ Arg.div \in {1, 2, 4} /\ Arg.code \in Nat
    BY <1>3, <2>1, WantedMHz DEF PllShapes
  <2> QED
    BY <1>2, <1>13, <2>2 DEF PllCfg, ClockTypeOK
<1>14. CASE PllOn
  BY <1>2, <1>14 DEF PllOn, ClockTypeOK
<1>15. CASE StopMsi
  BY <1>2, <1>15 DEF StopMsi, ClockTypeOK
<1>16. CASE ReturnSuccess
  BY <1>16 DEF ReturnSuccess, Return, hw, ClockTypeOK
<1>17. CASE StartTimeout \/ SwitchTimeout \/ ReturnNoFactor
  BY <1>17, Fails DEF Failed, Returned, hw, ClockTypeOK
<1>18. CASE Hardware \/ DisableMsi
  <2>1. rdy' \subseteq on' /\ on' \subseteq Sources /\ sws' \in Sources
        /\ UNCHANGED <<sw, pll, latency, div1, div2, msi_ready_flag>>
    BY <1>18 DEF Hardware, HwSwitch, HwReady, DisableMsi, ClockTypeOK
  <2> QED
    BY <1>18, <2>1, HardwareStays DEF Stays, ClockTypeOK
<1>19. CASE InitCall \/ AnyCall
  <2>1. PICK c : Begins(c)
    BY <1>19, Calling
  <2> QED
    BY <2>1 DEF Begins, hw, ClockTypeOK
<1>20. CASE UNCHANGED vars
  BY <1>20 DEF vars, hw, ClockTypeOK
<1> QED
  BY <1>5, <1>6, <1>7, <1>8, <1>9, <1>10, <1>11, <1>12, <1>13, <1>14, <1>15, <1>16, <1>17,
     <1>18, <1>19, <1>20 DEF Next, Function

\* SYSCLK's source and the PLL's keep running.
LEMMA AliveStep == ClockIInv /\ [Next]_vars => Alive'
<1> SUFFICES ASSUME ClockIInv, [Next]_vars PROVE Alive'
  OBVIOUS
<1>1. ClockTypeOK /\ Alive /\ (result = "none" => Located /\ WaitedReady /\ Selected)
  BY DEF ClockIInv
<1>2. /\ call.osc \in Oscillators /\ (ByMsi \/ SetsPll => call.osc \in {"HSI", "HSE"})
      /\ (Shape(call) \in {"boot", "direct", "old", "pll", "fail"})
      /\ SetsPll <=> ByMsi \/ Shape(call) = "boot"
  <2>1. call = Boot \/ IsRequest(call)
    BY <1>1 DEF ClockTypeOK
  <2> QED
    BY <2>1, Shapes DEF SetsPll, ByMsi, PllShapes, MsiShapes
<1>3. ASSUME NEW o, o # "fail", Performs(o)
      PROVE  Moved(o) /\ WaitedReady /\ Selected
  BY <1>1, <1>3, Moves DEF Moved
<1>4. CASE StartMsi
  BY <1>1, <1>4 DEF StartMsi, Alive
<1>5. CASE EnableOsc
  BY <1>1, <1>5 DEF EnableOsc, Alive
<1>6. CASE RestartOsc
  BY <1>1, <1>6 DEF RestartOsc, Alive, InUse
<1>7. CASE Ready \/ Switched
  BY <1>1, <1>7 DEF Ready, Switched, hw, Alive
<1>8. CASE Select \/ SetDivider \/ PllOn
  BY <1>1, <1>8 DEF Select, SetDivider, PllOn, Alive
<1>9. CASE PllOff
  BY <1>1, <1>9 DEF PllOff, Alive
<1>10. CASE PllCfg
  <2>1. Arg.osc = call.osc /\ point >= 3
    <3>1. Moved("pll_cfg")
      BY <1>3, <1>10 DEF PllCfg
    <3>2. Arg = Wanted(call) /\ stage = 7 /\ StageFacts
      BY <3>1 DEF Moved, Table
    <3> QED
      BY <3>2 DEF Wanted, StageFacts
  <2>2. call.osc \in rdy
    BY <1>3, <1>10, <2>1 DEF PllCfg, WaitedReady
  <2> QED
    BY <1>1, <1>10, <2>1, <2>2 DEF PllCfg, Alive
<1>11. CASE StopMsi
  <2>1. stage = 12 /\ SetsPll
    BY <1>3, <1>11 DEF StopMsi, Moved, Table, SetsPll, PllShapes, MsiShapes
  <2>2. sws = "PLL"
    BY <1>3, <1>11, <2>1 DEF StopMsi, Selected
  <2> QED
    BY <1>1, <1>11, <2>2 DEF StopMsi, Alive, ClockTypeOK
<1>12. CASE ReturnSuccess \/ StartTimeout \/ SwitchTimeout \/ ReturnNoFactor
  BY <1>1, <1>12
     DEF ReturnSuccess, StartTimeout, SwitchTimeout, ReturnNoFactor, Return, hw, Alive
<1>13. CASE Hardware
  BY <1>1, <1>13 DEF Hardware, HwSwitch, HwReady, Alive
<1>14. CASE DisableMsi
  BY <1>1, <1>14 DEF DisableMsi, Alive, ClockTypeOK
<1>15. CASE InitCall \/ AnyCall
  BY <1>1, <1>15 DEF InitCall, AnyCall, Begin, hw, Alive
<1>16. CASE UNCHANGED vars
  BY <1>1, <1>16 DEF vars, hw, Alive
<1> QED
  BY <1>4, <1>5, <1>6, <1>7, <1>8, <1>9, <1>10, <1>11, <1>12, <1>13, <1>14, <1>15, <1>16
     DEF Next, Function

\* What was waited for stays ready, and what was selected stays selected.
LEMMA PlaceStep ==
  ClockIInv /\ [Next]_vars => (result' = "none" => Located' /\ WaitedReady' /\ Selected')
<1> SUFFICES ASSUME ClockIInv, [Next]_vars
             PROVE  (result' = "none" => Located' /\ WaitedReady' /\ Selected')
  OBVIOUS
<1>1. ClockTypeOK /\ Alive /\ (result = "none" => Located /\ WaitedReady /\ Selected)
  BY DEF ClockIInv
<1>2. /\ call.osc \in Oscillators /\ (ByMsi \/ SetsPll => call.osc \in {"HSI", "HSE"})
      /\ (Shape(call) \in {"boot", "direct", "old", "pll", "fail"})
      /\ SetsPll <=> ByMsi \/ Shape(call) = "boot"
  <2>1. call = Boot \/ IsRequest(call)
    BY <1>1 DEF ClockTypeOK
  <2> QED
    BY <2>1, Shapes DEF SetsPll, ByMsi, PllShapes, MsiShapes
<1>3. ASSUME NEW o, o # "fail", Performs(o)
      PROVE  Moved(o) /\ WaitedReady /\ Selected
  BY <1>1, <1>3, Moves DEF Moved
<1> USE DEF SetsPll, ByMsi, PllShapes, MsiShapes
<1>4. ASSUME NEW o, Moved(o)
      PROVE  /\ Located' /\ call' = call
             /\ point' = point + 1 /\ stage' = stage + 1 /\ Shape(call)' = Shape(call)
             /\ StageFacts /\ Table(call, point, stage, o, Arg)
  BY <1>4 DEF Moved
<1>5. CASE StartMsi
  <2>1. Moved("start_msi") /\ WaitedReady /\ Selected
    BY <1>3, <1>5 DEF StartMsi
  <2>2. WaitedReady'
    BY <1>1, <1>2, <1>3, <1>4, <1>5, <2>1 DEF StartMsi, Table, StageFacts, WaitedReady
  <2>3. Selected'
    BY <1>2, <1>3, <1>4, <1>5, <2>1 DEF StartMsi, Table, StageFacts, Selected
  <2> QED
    BY <1>4, <2>1, <2>2, <2>3
<1>6. CASE EnableOsc
  <2>1. Moved("enable") /\ WaitedReady /\ Selected
    BY <1>3, <1>6 DEF EnableOsc
  <2>2. WaitedReady'
    BY <1>1, <1>2, <1>3, <1>4, <1>6, <2>1 DEF EnableOsc, Table, StageFacts, WaitedReady
  <2>3. Selected'
    BY <1>2, <1>3, <1>4, <1>6, <2>1 DEF EnableOsc, Table, StageFacts, Selected
  <2> QED
    BY <1>4, <2>1, <2>2, <2>3
<1>7. CASE RestartOsc
  <2>1. Moved("restart") /\ WaitedReady /\ Selected
    BY <1>3, <1>7 DEF RestartOsc
  <2>2. WaitedReady'
    BY <1>1, <1>2, <1>3, <1>4, <1>7, <2>1 DEF RestartOsc, Table, StageFacts, WaitedReady
  <2>3. Selected'
    BY <1>2, <1>3, <1>4, <1>7, <2>1 DEF RestartOsc, Table, StageFacts, Selected
  <2> QED
    BY <1>4, <2>1, <2>2, <2>3
<1>8. CASE Select
  <2>1. Moved("select") /\ WaitedReady /\ Selected
    BY <1>3, <1>8 DEF Select
  <2>2. WaitedReady'
    BY <1>1, <1>2, <1>3, <1>4, <1>8, <2>1 DEF Select, Table, StageFacts, WaitedReady
  <2>3. Selected'
    BY <1>2, <1>3, <1>4, <1>8, <2>1 DEF Select, Table, StageFacts, Selected
  <2> QED
    BY <1>4, <2>1, <2>2, <2>3
<1>9. CASE PllOff
  <2>1. Moved("pll_off") /\ WaitedReady /\ Selected
    BY <1>3, <1>9 DEF PllOff
  <2>2. WaitedReady'
    BY <1>1, <1>2, <1>3, <1>4, <1>9, <2>1 DEF PllOff, Table, StageFacts, WaitedReady
  <2>3. Selected'
    BY <1>2, <1>3, <1>4, <1>9, <2>1 DEF PllOff, Table, StageFacts, Selected
  <2> QED
    BY <1>4, <2>1, <2>2, <2>3
<1>10. CASE PllCfg
  <2>1. Moved("pll_cfg") /\ WaitedReady /\ Selected
    BY <1>3, <1>10 DEF PllCfg
  <2>2. WaitedReady'
    BY <1>1, <1>2, <1>3, <1>4, <1>10, <2>1 DEF PllCfg, Table, StageFacts, WaitedReady
  <2>3. Selected'
    BY <1>2, <1>3, <1>4, <1>10, <2>1 DEF PllCfg, Table, StageFacts, Selected
  <2> QED
    BY <1>4, <2>1, <2>2, <2>3
<1>11. CASE PllOn
  <2>1. Moved("pll_on") /\ WaitedReady /\ Selected
    BY <1>3, <1>11 DEF PllOn
  <2>2. WaitedReady'
    BY <1>1, <1>2, <1>3, <1>4, <1>11, <2>1 DEF PllOn, Table, StageFacts, WaitedReady
  <2>3. Selected'
    BY <1>2, <1>3, <1>4, <1>11, <2>1 DEF PllOn, Table, StageFacts, Selected
  <2> QED
    BY <1>4, <2>1, <2>2, <2>3
<1>12. CASE StopMsi
  <2>1. Moved("stop_msi") /\ WaitedReady /\ Selected
    BY <1>3, <1>12 DEF StopMsi
  <2>2. WaitedReady'
    BY <1>1, <1>2, <1>3, <1>4, <1>12, <2>1 DEF StopMsi, Table, StageFacts, WaitedReady
  <2>3. Selected'
    BY <1>2, <1>3, <1>4, <1>12, <2>1 DEF StopMsi, Table, StageFacts, Selected
  <2> QED
    BY <1>4, <2>1, <2>2, <2>3
<1>13. CASE Ready
  <2>1. (Moved("await") \/ Moved("spin")) /\ WaitedReady /\ Selected
    BY <1>3, <1>13 DEF Ready
  <2>2. WaitedReady'
    BY <1>1, <1>2, <1>3, <1>4, <1>13, <2>1 DEF Ready, Table, StageFacts, WaitedReady, hw
  <2>3. Selected'
    BY <1>2, <1>3, <1>4, <1>13, <2>1 DEF Ready, Table, StageFacts, Selected, hw
  <2> QED
    BY <1>4, <2>1, <2>2, <2>3
<1>14. CASE Switched
  <2>1. (Moved("switched") \/ Moved("spin_switched")) /\ WaitedReady /\ Selected
    BY <1>3, <1>14 DEF Switched
  <2>2. WaitedReady'
    BY <1>1, <1>2, <1>3, <1>4, <1>14, <2>1 DEF Switched, Table, StageFacts, WaitedReady, hw
  <2>3. Selected'
    BY <1>2, <1>3, <1>4, <1>14, <2>1 DEF Switched, Table, StageFacts, Selected, hw
  <2> QED
    BY <1>4, <2>1, <2>2, <2>3
<1>15. CASE SetDivider
  <2>1. (Moved("latency") \/ Moved("pclk2") \/ Moved("pclk1")) /\ WaitedReady /\ Selected
    BY <1>3, <1>15 DEF SetDivider
  <2>2. WaitedReady'
    BY <1>1, <1>2, <1>3, <1>4, <1>15, <2>1 DEF SetDivider, Table, StageFacts, WaitedReady
  <2>3. Selected'
    BY <1>2, <1>3, <1>4, <1>15, <2>1 DEF SetDivider, Table, StageFacts, Selected
  <2> QED
    BY <1>4, <2>1, <2>2, <2>3
<1>16. CASE ReturnSuccess \/ StartTimeout \/ SwitchTimeout \/ ReturnNoFactor
  BY <1>16 DEF ReturnSuccess, StartTimeout, SwitchTimeout, ReturnNoFactor, Return
<1>17. CASE Hardware
  <2>1. Stays
    BY <1>17, HardwareStays
  <2>2. SUFFICES ASSUME result = "none" PROVE Located' /\ WaitedReady' /\ Selected'
    BY <2>1 DEF Stays
  <2>3. Located' /\ StageFacts /\ call' = call
    BY <2>1, <2>2 DEF Stays
  <2>4. WaitedReady'
    BY <1>1, <1>17, <2>1, <2>2 DEF Stays, Hardware, HwSwitch, HwReady, WaitedReady
  <2>5. Selected'
    BY <1>1, <1>2, <1>17, <2>1, <2>2, <2>3
       DEF Stays, StageFacts, Hardware, HwSwitch, HwReady, Selected
  <2> QED
    BY <2>3, <2>4, <2>5
<1>18. CASE DisableMsi
  BY <1>18 DEF DisableMsi, Idle
<1>19. CASE InitCall \/ AnyCall
  <2>1. PICK c : Begins(c)
    BY <1>19, Calling
  <2>2. Shape(c) \in {"direct", "old", "pll", "fail"}
    BY <2>1, Shapes, Requests DEF Begins
  <2>3. Located' /\ call' = c /\ point' = 1 /\ Shape(call)' = Shape(c) /\ StageFacts'
    BY <2>1 DEF Begins
  <2>4. WaitedReady' /\ Selected'
    BY <2>2, <2>3 DEF StageFacts, WaitedReady, Selected
  <2> QED
    BY <2>3, <2>4
<1>20. CASE UNCHANGED vars
  <2>1. UNCHANGED <<prog, call, result, chip, rdy, sw, sws>>
    BY <1>20 DEF vars, hw
  <2>2. Located' = Located /\ point' = point /\ stage' = stage /\ Shape(call)' = Shape(call)
    BY <2>1, PlaceFixed
  <2> QED
    BY <1>1, <2>1, <2>2 DEF WaitedReady, Selected
<1> QED
  BY <1>5, <1>6, <1>7, <1>8, <1>9, <1>10, <1>11, <1>12, <1>13, <1>14, <1>15, <1>16, <1>17,
     <1>18, <1>19, <1>20
     DEF Next, Function

\* Types, and what a running function has achieved so far, are invariant.
THEOREM ClockInvariance == Spec => []ClockIInv
<1>1. ClockIInv /\ [Next]_vars => ClockIInv'
  BY ClockTypeStep, AliveStep, PlaceStep DEF ClockIInv
<1> QED
  BY <1>1, ClockInit, PTL DEF Spec

\* SYSCLK never stops: its source is on and ready, and so is the PLL's,
\* whatever the application asks for, whatever is late and whatever times out.
THEOREM ClockStaysAlive == Spec => []ClockAlive
<1>1. ClockIInv => ClockAlive
  BY DEF ClockIInv, Alive, ClockAlive
<1> QED
  BY <1>1, ClockInvariance, PTL

-----------------------------------------------------------------------------
(* While no wait for the switch times out, SYSCLK is late only on its way  *)
(* to the MSI.                                                             *)

\* An operation that selects nothing changes neither source.
LEMMA SourcesKept ==
  ASSUME ClockIInv, [Next]_vars
  PROVE  \/ UNCHANGED <<sw, sws>>
         \/ Select /\ Moved("select") /\ sw' = Arg /\ sws' = sws
         \/ HwSwitch
<1>1. CASE Select
  BY <1>1, Moves DEF Select
<1>2. CASE StartMsi \/ EnableOsc \/ RestartOsc \/ Ready \/ Switched \/ SetDivider
           \/ PllOff \/ PllCfg \/ PllOn \/ StopMsi
  BY <1>2 DEF StartMsi, EnableOsc, RestartOsc, Ready, Switched, SetDivider, PllOff, PllCfg, PllOn,
              StopMsi, hw
<1>3. CASE ReturnSuccess \/ StartTimeout \/ SwitchTimeout \/ ReturnNoFactor
  BY <1>3 DEF ReturnSuccess, StartTimeout, SwitchTimeout, ReturnNoFactor, Return, hw
<1>4. CASE Hardware \/ DisableMsi
  BY <1>4 DEF Hardware, HwReady, DisableMsi
<1>5. CASE InitCall \/ AnyCall
  BY <1>5 DEF InitCall, AnyCall, Begin, hw
<1>6. CASE UNCHANGED vars
  BY <1>6 DEF vars, hw
<1> QED
  BY <1>1, <1>2, <1>3, <1>4, <1>5, <1>6 DEF Next, Function

\* What a step is, seen from the running function.
LEMMA StepKinds ==
  ASSUME ClockIInv, [Next]_vars
  PROVE  \/ \E o : o # "fail" /\ Performs(o) /\ Moved(o)
         \/ Succeeded
         \/ Failed
         \/ Stays
         \/ \E c : Begins(c)
<1>1. CASE \E o : o # "fail" /\ Performs(o)
  BY <1>1, Moves
<1>2. CASE ReturnSuccess
  BY <1>2, Succeeds
<1>3. CASE StartTimeout \/ SwitchTimeout \/ ReturnNoFactor
  BY <1>3, Fails
<1>4. CASE Hardware \/ DisableMsi
  BY <1>4, HardwareStays
<1>5. CASE InitCall \/ AnyCall
  BY <1>5, Calling
<1>6. CASE UNCHANGED vars
  <2>1. UNCHANGED <<call, result, plan, chip, entry, mode, prog>>
    BY <1>6 DEF vars
  <2>2. result = "none" => Located /\ StageFacts
    BY StagesAre DEF ClockIInv
  <2> QED
    BY <2>1, <2>2, PlaceFixed DEF Stays
<1> QED
  BY <1>1, <1>2, <1>3, <1>4, <1>5, <1>6
     DEF Next, Function, StartMsi, EnableOsc, RestartOsc, Ready, Switched, Select, SetDivider,
         PllOff, PllCfg, PllOn, StopMsi

\* A wait for the switch does not time out when SYSCLK follows in time.
LEMMA FailedEarly ==
  ASSUME ClockIInv, Failed, lag # "long"
  PROVE  \/ Shape(call) = "fail"
         \/ point = 2 /\ call.osc \notin rdy
         \/ ByMsi /\ (point = 4 \/ (stage = 9 /\ sw = "MSI"))
<1>1. result = "none" /\ StageFacts /\ WaitedReady /\ Selected
  BY DEF Failed, Returned, ClockIInv
<1>2. CASE Head(prog).op = "await" /\ Arg \notin rdy /\ Table(call, point, stage, "await", Arg)
  BY <1>1, <1>2 DEF Table, StageFacts, Selected, ByMsi, MsiShapes
<1>3. CASE Table(call, point, stage, "switched", Arg) /\ Arg \notin rdy
  <2>1. \/ Shape(call) = "direct" /\ point = 4 /\ Arg = call.osc
        \/ ByMsi /\ stage = 11 /\ Arg = "PLL"
    BY <1>3 DEF Table, ByMsi
  <2>2. CASE Shape(call) = "direct" /\ point = 4 /\ Arg = call.osc
    BY <1>1, <1>3, <2>2 DEF WaitedReady
  <2>3. CASE ByMsi /\ stage = 11 /\ Arg = "PLL"
    BY <1>1, <1>3, <2>3 DEF WaitedReady, SetsPll, ByMsi, PllShapes, MsiShapes
  <2> QED
    BY <2>1, <2>2, <2>3
<1> QED
  BY <1>2, <1>3 DEF Failed

\* At reset SYSCLK is on the MSI.
LEMMA LateInit == Init => LateToMsi
BY DEF Init, LateToMsi

\* A selection that SYSCLK has not followed is one of the MSI, step by step.
LEMMA LateStep == ClockIInv /\ LateToMsi /\ [Next]_vars => LateToMsi'
<1> SUFFICES ASSUME ClockIInv, LateToMsi, [Next]_vars, lag' # "long" PROVE LateToMsi'
  BY DEF LateToMsi
<1>1. ClockTypeOK /\ (result = "none" => WaitedReady /\ Selected)
  BY DEF ClockIInv
<1>2. /\ Shape(call) \in {"boot", "direct", "old", "pll", "fail"}
      /\ SetsPll <=> ByMsi \/ Shape(call) = "boot"
  <2>1. call = Boot \/ IsRequest(call)
    BY <1>1 DEF ClockTypeOK
  <2> QED
    BY <2>1, Shapes DEF SetsPll, ByMsi, PllShapes, MsiShapes
<1>3. lag # "long" /\ mode' = mode
  BY StepKinds DEF Moved, Succeeded, Failed, Returned, Stays, Begins, lag
<1>4. CASE \E o : o # "fail" /\ Performs(o) /\ Moved(o)
  <2>1. PICK o : Moved(o)
    BY <1>4
  <2>2. /\ result = "none" /\ result' = "none" /\ entry' = entry /\ StageFacts
        /\ point' = point + 1 /\ stage' = stage + 1 /\ Shape(call)' = Shape(call)
        /\ SetsPll' = SetsPll /\ ByMsi' = ByMsi
    BY <2>1 DEF Moved
  <2>3. ~HwSwitch
    BY <1>4 DEF HwSwitch, Performs, ClockIInv
  <2>4. CASE UNCHANGED <<sw, sws>>
    BY <1>2, <1>3, <2>2, <2>4
       DEF LateToMsi, BeforeSelect, BeforeNewClock, StageFacts, ByMsi, MsiShapes
  <2>5. CASE Moved("select") /\ sw' = Arg /\ sws' = sws
    <3>1. \/ Shape(call) = "direct" /\ point = 3
          \/ ByMsi /\ point = 5 /\ sw' = "MSI"
          \/ SetsPll /\ stage = 10
      BY <2>5 DEF Moved, Table, ByMsi, SetsPll
    <3> QED
      BY <1>2, <1>3, <2>2, <2>5, <3>1
         DEF LateToMsi, BeforeSelect, BeforeNewClock, StageFacts, ByMsi, SetsPll, PllShapes,
             MsiShapes
  <2> QED
    BY <2>3, <2>4, <2>5, SourcesKept
<1>5. CASE Succeeded
  <2>1. sw = sws /\ sw' = sw /\ sws' = sws /\ result' = "SUCCESS"
    BY <1>1, <1>2, <1>5
       DEF Succeeded, Returned, hw, Selected, StageFacts, ByMsi, SetsPll, PllShapes, MsiShapes
  <2> QED
    BY <2>1 DEF LateToMsi
<1>6. CASE Failed
  <2>1. /\ sw' = sw /\ sws' = sws /\ result = "none" /\ result' = "ERROR" /\ entry' = entry
        /\ StageFacts
    BY <1>6 DEF Failed, Returned, hw
  <2>2. \/ Shape(call) = "fail" \/ point = 2 \/ (ByMsi /\ stage <= 9 /\ (point >= 6 => sw = "MSI"))
    BY <1>3, <1>6, <2>1, FailedEarly DEF StageFacts, ByMsi, MsiShapes
  <2>3. Shape(call) = "boot" /\ point = 2 => sw = "MSI" /\ sws = "MSI"
    BY <1>1, <2>1 DEF Selected, StageFacts
  <2>4. sw = sws \/ sw = "MSI"
    BY <1>2, <1>3, <2>1, <2>2, <2>3
       DEF LateToMsi, BeforeSelect, StageFacts, ByMsi, MsiShapes
  <2>5. entry = "MSI" => sw = "MSI" /\ sws = "MSI"
    BY <1>2, <1>3, <2>1, <2>2, <2>3
       DEF LateToMsi, BeforeNewClock, StageFacts, ByMsi, MsiShapes
  <2> QED
    BY <2>1, <2>4, <2>5 DEF LateToMsi
<1>7. CASE Stays
  <2>1. UNCHANGED <<result, entry, call>> /\ point' = point /\ stage' = stage
        /\ Shape(call)' = Shape(call) /\ ByMsi' = ByMsi
    BY <1>7 DEF Stays
  <2>2. BeforeSelect' = BeforeSelect /\ BeforeNewClock' = BeforeNewClock
    BY <2>1 DEF BeforeSelect, BeforeNewClock
  <2>3. UNCHANGED <<sw, sws>> \/ (sw # sws /\ sws' = sw /\ sw' = sw)
    <3>1. ~Moved("select")
      BY <1>7 DEF Moved, Stays, StageFacts, ClockIInv
    <3> QED
      BY <3>1, SourcesKept DEF HwSwitch
  <2> QED
    BY <1>3, <2>1, <2>2, <2>3 DEF LateToMsi
<1>8. CASE \E c : Begins(c)
  <2>1. PICK c : Begins(c)
    BY <1>8
  <2>2. /\ result # "none" /\ result' = "none" /\ UNCHANGED <<sw, sws>> /\ entry' = sws
    BY <2>1 DEF Begins, hw
  <2> QED
    BY <1>3, <2>2 DEF LateToMsi
<1> QED
  BY <1>4, <1>5, <1>6, <1>7, <1>8, StepKinds

-----------------------------------------------------------------------------
(* The calls of dri_ClockConfig_Init. *)

\* The four functions that dri_ClockConfig_Init and SystemInit run.
LEMMA PlanRequests ==
  /\ Direct("MSI") # Boot /\ Direct("HSE") # Boot /\ Pll64 # Boot
  /\ Direct("MSI") # Direct("HSE") /\ Direct("MSI") # Pll64 /\ Direct("HSE") # Pll64
  /\ Boot.to = "boot" /\ Boot.osc = "HSE" /\ Boot.mhz = 64
  /\ Direct("MSI").to = "MSI" /\ Direct("MSI").osc = "MSI" /\ Direct("MSI").mhz = 4
  /\ Direct("HSE").to = "HSE" /\ Direct("HSE").osc = "HSE" /\ Direct("HSE").mhz = 8
  /\ Pll64.to = "PLL" /\ Pll64.osc = "HSE" /\ Pll64.mhz = 64
  /\ Shape(Boot) = "boot" /\ Shape(Direct("MSI")) = "direct"
  /\ Shape(Direct("HSE")) \in {"direct", "old"} /\ Shape(Pll64) = "pll"
<1>1. MakesFactor(Pll64)
  <2>1. OscMHz("HSE") \div 1 = 8 /\ 64 % 8 = 0 /\ 64 \div 8 = 8
    BY DEF OscMHz
  <2> QED
    BY <2>1 DEF MakesFactor, Pll64
<1> QED
  BY <1>1 DEF Direct, Boot, Pll64, OscMHz, Shape

\* The MSI stops only at the end of a call that goes through it to the PLL, or
\* by the application.
LEMMA MsiKept ==
  ASSUME ClockIInv, [Next]_vars, "MSI" \in rdy
  PROVE  "MSI" \in rdy' \/ (ByMsi /\ result = "none" /\ call' = call) \/ mode.caller = "any"
<1>1. CASE RestartOsc
  <2>1. Arg \in {"HSI", "HSE"}
    BY <1>1, Moves DEF RestartOsc, Moved, Table
  <2> QED
    BY <1>1, <2>1 DEF RestartOsc
<1>2. CASE StopMsi
  BY <1>2, Moves DEF StopMsi, Moved, Table, ByMsi
<1>3. CASE PllOff
  BY <1>3 DEF PllOff
<1>4. CASE StartMsi \/ EnableOsc \/ Ready \/ Switched \/ Select \/ SetDivider \/ PllCfg \/ PllOn
  BY <1>4 DEF StartMsi, EnableOsc, Ready, Switched, Select, SetDivider, PllCfg, PllOn, hw
<1>5. CASE ReturnSuccess \/ StartTimeout \/ SwitchTimeout \/ ReturnNoFactor
  BY <1>5 DEF ReturnSuccess, StartTimeout, SwitchTimeout, ReturnNoFactor, Return, hw
<1>6. CASE Hardware \/ DisableMsi
  BY <1>6 DEF Hardware, HwSwitch, HwReady, DisableMsi
<1>7. CASE InitCall \/ AnyCall
  BY <1>7 DEF InitCall, AnyCall, Begin, hw
<1>8. CASE UNCHANGED vars
  BY <1>8 DEF vars, hw
<1> QED
  BY <1>1, <1>2, <1>3, <1>4, <1>5, <1>6, <1>7, <1>8 DEF Next, Function

\* The next of the three calls.
LEMMA InitCalls ==
  ASSUME ClockIInv, FirmwareOK, mode.caller = "firmware", InitCall
  PROVE  \/ call = Boot /\ call' = Direct("MSI") /\ plan' = <<Direct("HSE"), Pll64>>
         \/ call = Direct("MSI") /\ call' = Direct("HSE") /\ plan' = <<Pll64>>
         \/ call = Direct("HSE") /\ call' = Pll64 /\ plan' = <<>>
<1>1. plan # <<>> /\ call' = Head(plan) /\ plan' = Tail(plan) /\ PlanAfter
  BY DEF InitCall, Begin, FirmwareOK
<1>2. CASE call = Boot /\ plan = <<Direct("MSI"), Direct("HSE"), Pll64>>
  <2>1. Head(plan) = Direct("MSI") /\ Tail(plan) = <<Direct("HSE"), Pll64>>
    BY <1>2
  <2> QED
    BY <1>1, <1>2, <2>1
<1>3. CASE call = Direct("MSI") /\ plan = <<Direct("HSE"), Pll64>>
  <2>1. Head(plan) = Direct("HSE") /\ Tail(plan) = <<Pll64>>
    BY <1>3
  <2> QED
    BY <1>1, <1>3, <2>1
<1>4. CASE call = Direct("HSE") /\ plan = <<Pll64>>
  <2>1. Head(plan) = Pll64 /\ Tail(plan) = <<>>
    BY <1>4
  <2> QED
    BY <1>1, <1>4, <2>1
<1> QED
  BY <1>1, <1>2, <1>3, <1>4 DEF PlanAfter

\* The plan is that of the boot...
LEMMA FirmwareInit == Init => FirmwareOK
BY PlanRequests DEF Init, FirmwareOK, PlanAfter

\* ... and stays the one that belongs to the call.
LEMMA FirmwareStep ==
  ClockIInv /\ LateToMsi /\ FirmwareOK /\ [Next]_vars => FirmwareOK'
<1> SUFFICES ASSUME ClockIInv, LateToMsi, FirmwareOK, [Next]_vars,
                    mode'.caller = "firmware"
             PROVE  FirmwareOK'
  BY DEF FirmwareOK
<1>1. mode' = mode /\ mode.caller = "firmware" /\ lag' = lag
  BY StepKinds DEF Moved, Succeeded, Failed, Returned, Stays, Begins, lag
<1>2. ClockTypeOK /\ (result = "none" => WaitedReady /\ Selected)
  BY DEF ClockIInv
<1>3. CASE InitCall
  <2>1. PICK c : Begins(c)
    BY <1>3, Calling
  <2>2. UNCHANGED <<rdy, sw, sws>> /\ result # "none" /\ result' = "none" /\ entry' = sws
    BY <2>1 DEF Begins, hw
  <2>3. CASE call = Boot /\ call' = Direct("MSI") /\ plan' = <<Direct("HSE"), Pll64>>
    BY <1>1, <2>2, <2>3, PlanRequests DEF FirmwareOK, PlanAfter
  <2>4. CASE call = Direct("MSI") /\ call' = Direct("HSE") /\ plan' = <<Pll64>>
    BY <1>1, <2>2, <2>4, PlanRequests DEF FirmwareOK, PlanAfter
  <2>5. CASE call = Direct("HSE") /\ call' = Pll64 /\ plan' = <<>>
    BY <1>1, <2>2, <2>5, PlanRequests DEF FirmwareOK, PlanAfter
  <2> QED
    BY <1>1, <1>3, <2>3, <2>4, <2>5, InitCalls
<1>4. CASE ~InitCall
  <2>1. UNCHANGED <<call, plan, entry>>
    BY <1>1, <1>4
       DEF Next, Function, AnyCall, vars, Hardware, HwSwitch, HwReady, DisableMsi, ReturnSuccess,
           StartTimeout, SwitchTimeout, ReturnNoFactor, Return, StartMsi, EnableOsc, RestartOsc,
           Ready, Switched, Select, SetDivider, PllOff, PllCfg, PllOn, StopMsi, Performs
  <2>2. PlanAfter' /\ (call' = Direct("HSE") /\ lag' # "long" => entry' = "MSI")
    BY <1>1, <2>1 DEF FirmwareOK, PlanAfter
  <2>3. call' \in {Boot, Direct("MSI")} => "MSI" \in rdy'
    <3>1. call \in {Boot, Direct("MSI")} => ~ByMsi
      BY PlanRequests DEF ByMsi, MsiShapes
    <3> QED
      BY <1>1, <2>1, <3>1, MsiKept DEF FirmwareOK
  <2>4. call' = Direct("MSI") /\ result' # "none" /\ lag' # "long"
           => result' = "SUCCESS" /\ sws' = "MSI" /\ sw' = "MSI"
    <3> SUFFICES ASSUME call = Direct("MSI"), result' # "none", lag # "long"
                 PROVE  result' = "SUCCESS" /\ sws' = "MSI" /\ sw' = "MSI"
      BY <1>1, <2>1
    <3>1. Shape(call) = "direct" /\ call.osc = "MSI" /\ "MSI" \in rdy
      BY <1>1, PlanRequests DEF FirmwareOK
    <3>2. CASE Succeeded
      BY <1>2, <3>1, <3>2 DEF Succeeded, Returned, StageFacts, Selected, hw
    <3>3. CASE Failed
      BY <3>1, <3>3, FailedEarly DEF ByMsi, MsiShapes
    <3>4. CASE Stays
      <4>1. result' = result /\ result = "SUCCESS" /\ sw = "MSI" /\ sws = "MSI"
        BY <1>1, <3>4 DEF Stays, FirmwareOK
      <4>2. ~Moved("select") /\ ~HwSwitch
        BY <4>1 DEF Moved, HwSwitch
      <4> QED
        BY <4>1, <4>2, SourcesKept
    <3>5. ~(\E o : Moved(o)) /\ ~(\E c : Begins(c))
      BY <2>1 DEF Moved, Begins
    <3> QED
      BY <3>2, <3>3, <3>4, <3>5, StepKinds
  <2> QED
    BY <2>2, <2>3, <2>4 DEF FirmwareOK
<1> QED
  BY <1>3, <1>4

\* What is invariant in any mode but, for the switches, the one without a bound.
LateInv == ClockIInv /\ LateToMsi /\ FirmwareOK

\* Both, with the types and the places, are invariant.
LEMMA LateInvariance == Spec => []LateInv
<1>1. Init => LateInv
  BY ClockInit, LateInit, FirmwareInit DEF LateInv
<1>2. LateInv /\ [Next]_vars => LateInv'
  <2>1. ClockIInv /\ [Next]_vars => ClockIInv'
    BY ClockTypeStep, AliveStep, PlaceStep DEF ClockIInv
  <2> QED
    BY <2>1, LateStep, FirmwareStep DEF LateInv
<1> QED
  BY <1>1, <1>2, PTL DEF Spec

\* When SetSysClockToHSE fails that began on the MSI, SYSCLK is on the MSI, as
\* long as no wait for the switch times out.
THEOREM HseFailureIsHarmless == Spec => []HseFailureKeepsMsi
<1>1. LateInv => HseFailureKeepsMsi
  BY DEF LateInv, LateToMsi, HseFailureKeepsMsi
<1> QED
  BY <1>1, LateInvariance, PTL

-----------------------------------------------------------------------------
(* While SYSCLK follows before the next operation. *)

\* What the sequence says of the request.
LEMMA CallShape ==
  ASSUME ClockIInv
  PROVE  /\ Shape(call) \in {"boot", "direct", "old", "pll", "fail"}
         /\ SetsPll <=> ByMsi \/ Shape(call) = "boot"
         /\ ByMsi <=> Shape(call) \in {"old", "pll"}
         /\ call.osc \in Oscillators
         /\ call = Boot \/ IsRequest(call)
<1>1. call = Boot \/ IsRequest(call)
  BY DEF ClockIInv, ClockTypeOK
<1> QED
  BY <1>1, Shapes DEF SetsPll, ByMsi, PllShapes, MsiShapes

\* The mode does not change, and the last call is not followed by another one.
LEMMA PromptBefore ==
  ASSUME ClockIInv, FirmwareOK, [Next]_vars
  PROVE  /\ mode' = mode /\ lag' = lag /\ Firmware' = Firmware
         /\ Prompt' => Prompt
         /\ Prompt => lag # "long"
<1>1. mode' = mode /\ lag' = lag /\ Firmware' = Firmware
  BY StepKinds DEF Moved, Succeeded, Failed, Returned, Stays, Begins, lag, Firmware
<1>2. ASSUME Firmware, call = Pll64 PROVE call' = Pll64
  <2>1. plan = <<>> /\ mode.caller = "firmware"
    BY <1>2, PlanRequests DEF FirmwareOK, PlanAfter, Firmware
  <2>2. ~InitCall /\ ~AnyCall
    BY <2>1 DEF InitCall, AnyCall
  <2> QED
    BY <1>2, <2>2
       DEF Next, Function, vars, Hardware, HwSwitch, HwReady, DisableMsi, ReturnSuccess,
           StartTimeout, SwitchTimeout, ReturnNoFactor, Return, StartMsi, EnableOsc, RestartOsc,
           Ready, Switched, Select, SetDivider, PllOff, PllCfg, PllOn, StopMsi, Performs
<1> QED
  BY <1>1, <1>2 DEF Prompt, Firmware

\* What SYSCLK is late for is ready.
LEMMA LateIsReady ==
  ASSUME ClockIInv, sw # sws => AfterSelect PROVE sw \in rdy
<1>1. CASE sw = sws
  BY <1>1 DEF ClockIInv, Alive
<1>2. CASE AfterSelect
  <2>1. StageFacts /\ WaitedReady /\ Selected
    BY <1>2, StagesAre DEF AfterSelect, ClockIInv
  <2> QED
    BY <1>2, <2>1, CallShape DEF AfterSelect, StageFacts, WaitedReady, Selected
<1> QED
  BY <1>1, <1>2

\* An operation finds SYSCLK where it was selected, but for the waits for it.
LEMMA FoundInStep ==
  ASSUME ClockIInv, LateToMsi, FirmwareOK, InStep, Prompt, Settled, result = "none"
  PROVE  \/ sw = sws
         \/ Shape(call) = "direct" /\ point = 4
         \/ SetsPll /\ stage = 11
<1>1. CASE lag = "none"
  BY <1>1, LateIsReady DEF Settled, InStep
<1>2. CASE Firmware /\ call # Pll64
  <2> SUFFICES ASSUME ByMsi, point = 6, sw # sws PROVE FALSE
    BY <1>2 DEF InStep, AfterSelect
  <2>1. call = Direct("HSE") /\ entry = "MSI"
    BY <1>2, PlanRequests DEF FirmwareOK, PlanAfter, Firmware, ByMsi, MsiShapes
  <2>2. stage <= 10
    BY CallShape, StagesAre DEF ClockIInv, StageFacts
  <2> QED
    BY <1>2, <2>1, <2>2 DEF LateToMsi, BeforeNewClock, Firmware
<1> QED
  BY <1>1, <1>2 DEF Prompt

\* The PLL is set up on the MSI.
LEMMA OnMsi ==
  ASSUME ClockIInv, LateToMsi, FirmwareOK, InStep, Prompt, Settled, result = "none",
         SetsPll, Shape(call) = "boot" \/ point >= 6, stage <= 10
  PROVE  sws = "MSI"
<1>1. Selected /\ StageFacts
  BY StagesAre DEF ClockIInv
<1> QED
  BY <1>1, FoundInStep, CallShape DEF Selected

\* SYSCLK is late only right after a selection, step by step.
LEMMA InStepStep ==
  ASSUME LateInv, LateInv', InStep, [Next]_vars
  PROVE  InStep'
<1> USE DEF LateInv
<1> SUFFICES ASSUME Prompt', sw' # sws' PROVE AfterSelect'
  BY DEF InStep
<1>1. Prompt /\ lag # "long"
  BY PromptBefore
<1>2. result = "none" => StageFacts /\ Selected
  BY StagesAre DEF ClockIInv
<1>3. CASE \E o : Performs(o) /\ Moved(o)
  <2>1. PICK o : Moved(o)
    BY <1>3
  <2>2. /\ result = "none" /\ result' = "none" /\ StageFacts /\ Settled
        /\ point' = point + 1 /\ stage' = stage + 1 /\ Shape(call)' = Shape(call)
        /\ SetsPll' = SetsPll /\ ByMsi' = ByMsi /\ call' = call
    BY <2>1 DEF Moved
  <2>3. CASE UNCHANGED <<sw, sws>>
    <3>1. Selected'
      BY <2>2 DEF ClockIInv
    <3>2. CASE Shape(call) = "direct" /\ point = 4
      BY <2>2, <3>1, <3>2 DEF Selected
    <3>3. CASE SetsPll /\ stage = 11
      BY <2>2, <3>1, <3>3 DEF Selected
    <3> QED
      BY <1>1, <2>2, <2>3, <3>2, <3>3, FoundInStep
  <2>4. CASE Moved("select")
    <3>1. \/ Shape(call) = "direct" /\ point = 3
          \/ ByMsi /\ point = 5
          \/ SetsPll /\ stage = 10
      BY <2>4 DEF Moved, Table, ByMsi, SetsPll
    <3> QED
      BY <2>2, <3>1 DEF AfterSelect, StageFacts
  <2>5. ~HwSwitch
    BY <1>3 DEF HwSwitch, Performs, ClockIInv
  <2> QED
    BY <2>3, <2>4, <2>5, SourcesKept
<1>4. CASE Succeeded
  <2>1. sw = sws /\ sw' = sw /\ sws' = sws
    BY <1>2, <1>4, CallShape DEF Succeeded, Returned, hw, Selected, StageFacts
  <2> QED
    BY <2>1
<1>5. CASE Failed
  <2>1. sw' = sw /\ sws' = sws /\ StageFacts
    BY <1>5 DEF Failed, Returned, hw
  <2>2. ~AfterSelect
    BY <1>1, <1>5, <2>1, FailedEarly, CallShape DEF AfterSelect, StageFacts
  <2> QED
    BY <1>1, <2>1, <2>2 DEF InStep
<1>6. CASE Stays
  <2>1. AfterSelect' = AfterSelect
    BY <1>6 DEF Stays, AfterSelect
  <2>2. ~Moved("select")
    BY <1>6 DEF Moved, Stays, StageFacts, ClockIInv
  <2> QED
    BY <1>1, <2>1, <2>2, SourcesKept DEF InStep, HwSwitch
<1>7. CASE \E c : Begins(c)
  BY <1>1, <1>7 DEF Begins, hw, InStep, AfterSelect
<1> QED
  BY <1>3, <1>4, <1>5, <1>6, <1>7, StepKinds
\* The PLL is off when it is set up, and set up from then on.
LEMMA PllSetStep ==
  ASSUME LateInv, LateInv', InStep, PllSet, [Next]_vars
  PROVE  PllSet'
<1> USE DEF LateInv
<1> SUFFICES ASSUME Prompt', result' = "none", SetsPll' PROVE PllSet'
  BY DEF PllSet
<1>1. Prompt /\ lag # "long"
  BY PromptBefore
<1>2. /\ Shape(call) \in {"boot", "direct", "old", "pll", "fail"}
      /\ SetsPll <=> ByMsi \/ Shape(call) = "boot"
      /\ ByMsi <=> Shape(call) \in {"old", "pll"}
      /\ call.osc # "PLL"
  BY CallShape DEF Oscillators
<1>3. ASSUME NEW o, o # "fail", Performs(o)
      PROVE  Moved(o)
  BY <1>3, Moves
<1>4. ASSUME NEW o, Moved(o)
      PROVE  /\ result = "none" /\ SetsPll /\ Settled /\ Wanted(call)' = Wanted(call)
             /\ stage' = stage + 1 /\ Shape(call)' = Shape(call)
             /\ StageFacts /\ Table(call, point, stage, o, Arg)
  BY <1>4 DEF Moved
<1>5. ASSUME result = "none", SetsPll
      PROVE  /\ (Shape(call) = "boot" \/ stage >= 7) /\ stage <= 8 => "PLL" \notin on
             /\ stage >= 8 => pll = Wanted(call)
  BY <1>1, <1>5 DEF PllSet
<1> USE DEF MsiShapes, PllShapes
<1>6. CASE StartMsi
  <2>1. Moved("start_msi")
    BY <1>3, <1>6 DEF StartMsi
  <2> QED
    BY <1>2, <1>4, <1>5, <1>6, <2>1 DEF StartMsi, Table, StageFacts, PllSet
<1>7. CASE EnableOsc
  <2>1. Moved("enable")
    BY <1>3, <1>7 DEF EnableOsc
  <2> QED
    BY <1>2, <1>4, <1>5, <1>7, <2>1 DEF EnableOsc, Table, StageFacts, PllSet
<1>8. CASE RestartOsc
  <2>1. Moved("restart")
    BY <1>3, <1>8 DEF RestartOsc
  <2> QED
    BY <1>2, <1>4, <1>5, <1>8, <2>1 DEF RestartOsc, Table, StageFacts, PllSet
<1>9. CASE Ready
  <2>1. Moved("await") \/ Moved("spin")
    BY <1>3, <1>9 DEF Ready
  <2> QED
    BY <1>2, <1>4, <1>5, <1>9, <2>1 DEF Ready, Table, StageFacts, PllSet, hw
<1>10. CASE Switched
  <2>1. Moved("switched") \/ Moved("spin_switched")
    BY <1>3, <1>10 DEF Switched
  <2> QED
    BY <1>2, <1>4, <1>5, <1>10, <2>1 DEF Switched, Table, StageFacts, PllSet, hw
<1>11. CASE Select
  <2>1. Moved("select")
    BY <1>3, <1>11 DEF Select
  <2> QED
    BY <1>2, <1>4, <1>5, <1>11, <2>1 DEF Select, Table, StageFacts, PllSet
<1>12. CASE SetDivider
  <2>1. Moved("latency") \/ Moved("pclk2") \/ Moved("pclk1")
    BY <1>3, <1>12 DEF SetDivider
  <2> QED
    BY <1>2, <1>4, <1>5, <1>12, <2>1 DEF SetDivider, Table, StageFacts, PllSet
<1>13. CASE PllOff
  <2>1. Moved("pll_off")
    BY <1>3, <1>13 DEF PllOff
  <2>2. stage = 6 /\ ByMsi /\ StageFacts
    BY <1>2, <1>4, <2>1 DEF Table
  <2>3. sws = "MSI"
    BY <1>1, <1>2, <1>4, <2>1, <2>2, OnMsi DEF StageFacts
  <2> QED
    BY <1>4, <1>13, <2>1, <2>2, <2>3 DEF PllOff, PllSet
<1>14. CASE PllCfg
  <2>1. Moved("pll_cfg")
    BY <1>3, <1>14 DEF PllCfg
  <2>2. stage = 7 /\ Arg = Wanted(call)
    BY <1>4, <2>1 DEF Table
  <2> QED
    BY <1>4, <1>5, <1>14, <2>1, <2>2 DEF PllCfg, PllSet
<1>15. CASE PllOn
  <2>1. Moved("pll_on")
    BY <1>3, <1>15 DEF PllOn
  <2> QED
    BY <1>2, <1>4, <1>5, <1>15, <2>1 DEF PllOn, Table, StageFacts, PllSet
<1>16. CASE StopMsi
  <2>1. Moved("stop_msi")
    BY <1>3, <1>16 DEF StopMsi
  <2> QED
    BY <1>2, <1>4, <1>5, <1>16, <2>1 DEF StopMsi, Table, StageFacts, PllSet
<1>17. CASE ReturnSuccess \/ StartTimeout \/ SwitchTimeout \/ ReturnNoFactor
  BY <1>17 DEF ReturnSuccess, StartTimeout, SwitchTimeout, ReturnNoFactor, Return
<1>18. CASE Hardware
  <2>1. Stays /\ on' = on /\ pll' = pll
    BY <1>18, HardwareStays DEF Hardware, HwSwitch, HwReady
  <2>2. result = "none" /\ SetsPll /\ Wanted(call)' = Wanted(call)
    BY <2>1 DEF Stays
  <2> QED
    BY <1>5, <2>1, <2>2 DEF Stays, PllSet
<1>19. CASE DisableMsi
  BY <1>19 DEF DisableMsi, Idle
<1>20. CASE InitCall \/ AnyCall
  <2>1. PICK c : Begins(c)
    BY <1>20, Calling
  <2>2. Shape(c) # "boot"
    BY <2>1, Shapes, Requests DEF Begins
  <2>3. Shape(call)' = Shape(c) /\ point' = 1 /\ StageFacts'
    BY <2>1 DEF Begins
  <2>4. stage' <= 1
    BY <2>2, <2>3 DEF StageFacts
  <2>5. stage' \in Int
    BY <2>2, <2>3 DEF StageFacts
  <2> QED
    BY <2>2, <2>3, <2>4, <2>5 DEF PllSet
<1>21. CASE UNCHANGED vars
  <2>1. UNCHANGED <<prog, call, result, chip, on, pll>>
    BY <1>21 DEF vars, hw
  <2>2. stage' = stage /\ Shape(call)' = Shape(call) /\ SetsPll' = SetsPll
        /\ Wanted(call)' = Wanted(call)
    BY <2>1, PlaceFixed
  <2> QED
    BY <1>5, <2>1, <2>2 DEF PllSet
<1> QED
  BY <1>6, <1>7, <1>8, <1>9, <1>10, <1>11, <1>12, <1>13, <1>14, <1>15, <1>16, <1>17, <1>18, <1>19,
     <1>20, <1>21 DEF Next, Function
\* The wait states and the dividers are set one after the other, and stay.
LEMMA DividersStep ==
  ASSUME ClockIInv, DividersSet, [Next]_vars
  PROVE  DividersSet'
<1> SUFFICES ASSUME result' = "none", Shape(call)' \in {"boot", "pll"} PROVE DividersSet'
  BY DEF DividersSet
<1>1. call = Boot <=> Shape(call) = "boot"
  BY CallShape, Shapes
<1>2. Pclk2Div(Boot.mhz) = 2 /\ Pclk1Div(Boot.mhz) = 4
  BY DEF Pclk2Div, Pclk1Div, Boot
<1>3. ASSUME NEW o, Moved(o)
      PROVE  /\ result = "none" /\ call' = call /\ Shape(call) \in {"boot", "pll"}
             /\ point' = point + 1 /\ stage' = stage + 1 /\ Shape(call)' = Shape(call)
             /\ StageFacts /\ Table(call, point, stage, o, Arg)
  BY <1>3 DEF Moved
<1>4. ASSUME NEW o, o \notin {"latency", "pclk2", "pclk1", "fail"}, o \in Operations, Performs(o),
             UNCHANGED <<latency, div1, div2>>
      PROVE  DividersSet'
  <2>1. Moved(o)
    BY <1>4, Moves
  <2>2. /\ Shape(call) = "boot" => point \notin {3, 4, 5}
        /\ Shape(call) = "pll" => point \notin {6, 7, 8}
    BY <1>3, <1>4, <2>1 DEF Table, StageFacts, Operations, MsiShapes, PllShapes
  <2> QED
    BY <1>1, <1>3, <1>4, <2>1, <2>2 DEF DividersSet, StageFacts
<1>5. CASE StartMsi \/ EnableOsc \/ RestartOsc \/ Ready \/ Switched \/ Select
           \/ PllOff \/ PllCfg \/ PllOn \/ StopMsi
  BY <1>4, <1>5
     DEF StartMsi, EnableOsc, RestartOsc, Ready, Switched, Select, PllOff, PllCfg, PllOn, StopMsi,
         Operations, hw
<1>6. CASE SetDivider
  <2>1. CASE Performs("latency") /\ latency' = Arg /\ UNCHANGED <<div1, div2>>
    <3>1. Moved("latency")
      BY <2>1, Moves
    <3>2. \/ Shape(call) = "boot" /\ point = 3 /\ Arg = 1
          \/ Shape(call) = "pll" /\ point = 6 /\ Arg = call.mhz \div 32
      BY <1>3, <3>1 DEF Table
    <3> QED
      BY <1>1, <1>3, <2>1, <3>1, <3>2 DEF DividersSet, StageFacts
  <2>2. CASE Performs("pclk2") /\ div2' = Arg /\ UNCHANGED <<div1, latency>>
    <3>1. Moved("pclk2")
      BY <2>2, Moves
    <3>2. \/ Shape(call) = "boot" /\ point = 4 /\ Arg = 2
          \/ Shape(call) = "pll" /\ point = 7 /\ Arg = Pclk2Div(call.mhz)
      BY <1>3, <3>1 DEF Table
    <3> QED
      BY <1>1, <1>2, <1>3, <2>2, <3>1, <3>2 DEF DividersSet, StageFacts
  <2>3. CASE Performs("pclk1") /\ div1' = Arg /\ UNCHANGED <<div2, latency>>
    <3>1. Moved("pclk1")
      BY <2>3, Moves
    <3>2. \/ Shape(call) = "boot" /\ point = 5 /\ Arg = 4
          \/ Shape(call) = "pll" /\ point = 8 /\ Arg = Pclk1Div(call.mhz)
      BY <1>3, <3>1 DEF Table
    <3> QED
      BY <1>1, <1>2, <1>3, <2>3, <3>1, <3>2 DEF DividersSet, StageFacts
  <2> QED
    BY <1>6, <2>1, <2>2, <2>3 DEF SetDivider
<1>7. CASE ReturnSuccess \/ StartTimeout \/ SwitchTimeout \/ ReturnNoFactor
  BY <1>7 DEF ReturnSuccess, StartTimeout, SwitchTimeout, ReturnNoFactor, Return
<1>8. CASE Hardware \/ DisableMsi
  <2>1. Stays /\ UNCHANGED <<latency, div1, div2>>
    BY <1>8, HardwareStays DEF Hardware, HwSwitch, HwReady, DisableMsi
  <2> QED
    BY <2>1 DEF Stays, DividersSet
<1>9. CASE InitCall \/ AnyCall
  <2>1. PICK c : Begins(c)
    BY <1>9, Calling
  <2>2. Shape(c) # "boot"
    BY <2>1, Shapes, Requests DEF Begins
  <2>3. Shape(call)' = Shape(c) /\ point' = 1 /\ StageFacts'
    BY <2>1 DEF Begins
  <2>4. stage' = -2
    BY <2>2, <2>3 DEF StageFacts
  <2> QED
    BY <2>2, <2>3, <2>4 DEF DividersSet
<1>10. CASE UNCHANGED vars
  <2>1. UNCHANGED <<prog, call, result, chip, latency, div1, div2>>
    BY <1>10 DEF vars, hw
  <2>2. point' = point /\ stage' = stage /\ Shape(call)' = Shape(call)
    BY <2>1, PlaceFixed
  <2> QED
    BY <2>1, <2>2 DEF DividersSet
<1> QED
  BY <1>5, <1>6, <1>7, <1>8, <1>9, <1>10 DEF Next, Function

\* What is asked for is within the part's range.
LEMMA RangeStep ==
  ASSUME ClockIInv, call.mhz <= 64, [Next]_vars
  PROVE  call'.mhz <= 64
<1>1. CASE InitCall \/ AnyCall
  <2>1. PICK c : /\ Begins(c)
                 /\ \/ plan # <<>> /\ c = Head(plan)
                    \/ c \in Calls
    BY <1>1, Calling
  <2> QED
    BY <2>1, PlanStep, RangeAssumption DEF Begins, ClockIInv, ClockTypeOK
<1>2. CASE ~InitCall /\ ~AnyCall
  BY <1>2
     DEF Next, Function, vars, Hardware, HwSwitch, HwReady, DisableMsi, ReturnSuccess,
         StartTimeout, SwitchTimeout, ReturnNoFactor, Return, StartMsi, EnableOsc, RestartOsc,
         Ready, Switched, Select, SetDivider, PllOff, PllCfg, PllOn, StopMsi, Performs
<1> QED
  BY <1>1, <1>2

\* No oscillator is too fast for the reset values.
LEMMA OscLimits ==
  ClockTypeOK /\ sws # "PLL" => FlashOK /\ BusOK
<1> SUFFICES ASSUME ClockTypeOK, sws # "PLL" PROVE FlashOK /\ BusOK
  OBVIOUS
<1>1. SysMHz \in {4, 8, 16}
  BY DEF SysMHz, OscMHz
<1> QED
  BY <1>1 DEF FlashOK, BusOK, ClockTypeOK

\* Nor is the PLL once everything is set for it.
LEMMA PllLimits ==
  ClockIInv /\ result = "none" /\ SetsPll /\ stage >= 11 /\ pll = Wanted(call)
     /\ DividersSet /\ call.mhz <= 64 => FlashOK /\ BusOK
<1> SUFFICES ASSUME ClockIInv, result = "none", SetsPll, stage >= 11, pll = Wanted(call),
                    DividersSet, call.mhz <= 64
             PROVE  FlashOK /\ BusOK
  OBVIOUS
<1>1. PllMHz(pll) = call.mhz /\ (Shape(call) = "old" => call.mhz <= 16)
  BY CallShape, WantedMHz DEF SetsPll, PllShapes
<1>2. SysMHz <= 16 \/ SysMHz = call.mhz
  BY <1>1 DEF SysMHz, OscMHz
<1>3. call.mhz \in Nat
  BY CallShape, Requests DEF Boot
<1>4. CASE SysMHz \in Nat /\ SysMHz <= 16
  BY <1>4 DEF ClockIInv, ClockTypeOK, FlashOK, BusOK
<1>5. CASE Shape(call) \in {"boot", "pll"} /\ SysMHz = call.mhz
  <2>1. StageFacts
    BY StagesAre DEF ClockIInv
  <2>2. latency = (IF call = Boot THEN 1 ELSE call.mhz \div 32)
        /\ div2 = Pclk2Div(call.mhz) /\ div1 = Pclk1Div(call.mhz)
    BY <1>5, <2>1 DEF DividersSet, StageFacts
  <2>3. call.mhz <= 32 * (latency + 1)
    BY <1>3, <2>2 DEF Boot
  <2>4. call.mhz <= 32 * div2 /\ call.mhz <= 16 * div1
    BY <1>3, <2>2 DEF Pclk2Div, Pclk1Div
  <2> QED
    BY <1>5, <2>3, <2>4 DEF FlashOK, BusOK
<1>6. SysMHz \in Nat
  BY <1>1, <1>3 DEF SysMHz, OscMHz
<1> QED
  BY <1>1, <1>2, <1>4, <1>5, <1>6, CallShape DEF SetsPll, PllShapes
\* The wait states, the dividers and the PLL change only while SYSCLK is not on
\* the PLL, or once the PLL is set up.
LEMMA SettingsKept ==
  ASSUME ClockIInv, [Next]_vars
  PROVE  \/ UNCHANGED <<latency, div1, div2, pll>>
         \/ /\ result = "none" /\ result' = "none" /\ Settled /\ UNCHANGED <<sw, sws>>
            /\ StageFacts /\ stage' = stage + 1 /\ SetsPll' = SetsPll
            /\ Shape(call)' = Shape(call)
            /\ \/ Shape(call) = "direct" /\ point >= 5
               \/ SetsPll /\ stage >= 12
               \/ SetsPll /\ (Shape(call) = "boot" \/ point >= 6) /\ stage <= 7
<1>1. CASE SetDivider
  <2>1. Moved("latency") \/ Moved("pclk2") \/ Moved("pclk1")
    BY <1>1, Moves DEF SetDivider
  <2> QED
    BY <1>1, <2>1, CallShape DEF SetDivider, Moved, Table, StageFacts
<1>2. CASE PllCfg
  <2>1. Moved("pll_cfg")
    BY <1>2, Moves DEF PllCfg
  <2> QED
    BY <1>2, <2>1, CallShape DEF PllCfg, Moved, Table, StageFacts, PllShapes, SetsPll
<1>3. CASE ~SetDivider /\ ~PllCfg
  BY <1>3
     DEF Next, Function, vars, Hardware, HwSwitch, HwReady, DisableMsi, ReturnSuccess,
         StartTimeout, SwitchTimeout, ReturnNoFactor, Return, StartMsi, EnableOsc, RestartOsc,
         Ready, Switched, Select, PllOff, PllOn, StopMsi, hw, InitCall, AnyCall, Begin
<1> QED
  BY <1>1, <1>2, <1>3

\* The limits hold at every step.
LEMMA LimitsStep ==
  ASSUME LateInv, LateInv', InStep, PllSet', DividersSet', Limits, call'.mhz <= 64, [Next]_vars
  PROVE  Limits'
<1> USE DEF LateInv
<1> SUFFICES ASSUME Prompt' PROVE (FlashOK /\ BusOK)'
  BY DEF Limits
<1>1. Prompt /\ lag # "long"
  BY PromptBefore
<1>2. (ClockTypeOK /\ sws # "PLL" => FlashOK /\ BusOK)'
  BY OscLimits, PTL
<1>3. (ClockIInv /\ result = "none" /\ SetsPll /\ stage >= 11 /\ pll = Wanted(call)
         /\ DividersSet /\ call.mhz <= 64 => FlashOK /\ BusOK)'
  BY PllLimits, PTL
<1>4. CASE sws' # "PLL"
  BY <1>2, <1>4 DEF ClockIInv
<1>5. CASE result' = "none" /\ SetsPll' /\ stage' >= 11
  <2>1. pll' = Wanted(call)' /\ stage' \in Int
    <3>1. StageFacts'
      <4>1. (ClockTypeOK /\ Located => StageFacts)'
        BY StagesAre, PTL
      <4> QED
        BY <1>5, <4>1 DEF ClockIInv
    <3> QED
      BY <1>5, <3>1 DEF PllSet, StageFacts
  <2> QED
    BY <1>3, <1>5, <2>1
<1>6. CASE sws' = "PLL" /\ ~(result' = "none" /\ SetsPll' /\ stage' >= 11)
  <2>1. ~HwSwitch
    <3> SUFFICES ASSUME HwSwitch PROVE FALSE
      OBVIOUS
    <3>1. AfterSelect /\ sw = "PLL" /\ Stays /\ StageFacts /\ Selected
      BY <1>1, <1>6, HardwareStays, StagesAre
         DEF Hardware, HwSwitch, InStep, AfterSelect, ClockIInv
    <3>2. CASE SetsPll /\ stage = 11
      BY <1>6, <3>1, <3>2 DEF Stays, AfterSelect
    <3> QED
      BY <3>1, <3>2, CallShape DEF AfterSelect, Selected, StageFacts, Oscillators
  <2>2. sws = "PLL"
    BY <1>6, <2>1, SourcesKept
  <2>3. UNCHANGED <<latency, div1, div2, pll>>
    <3>1. /\ result = "none" /\ Shape(call) = "direct" => ~(point >= 5)
          /\ result = "none" /\ Settled /\ SetsPll /\ (Shape(call) = "boot" \/ point >= 6)
               => ~(stage <= 10)
      BY <1>1, <2>2, OnMsi, CallShape DEF ClockIInv, Selected, Oscillators
    <3> QED
      BY <1>6, <3>1, SettingsKept DEF StageFacts
  <2> QED
    BY <1>1, <1>6, <2>2, <2>3 DEF Limits, FlashOK, BusOK, SysMHz
<1> QED
  BY <1>4, <1>5, <1>6

\* Success leaves the clock that was asked for, until the next call.
LEMMA SuccessStep ==
  ASSUME LateInv, InStep, PllSet, Success, [Next]_vars
  PROVE  Success'
<1> USE DEF LateInv
<1> SUFFICES ASSUME Prompt', result' = "SUCCESS" PROVE Success'
  BY DEF Success
<1>1. Prompt /\ lag # "long"
  BY PromptBefore
<1>2. CASE Succeeded
  <2>1. /\ UNCHANGED <<sw, sws, pll>> /\ Shape(call)' = Shape(call) /\ SetsPll' = SetsPll
        /\ call' = call /\ Wanted(call)' = Wanted(call)
        /\ result = "none" /\ StageFacts /\ Selected
    BY <1>2 DEF Succeeded, Returned, hw, ClockIInv
  <2>2. CASE Shape(call) = "direct"
    BY <1>2, <2>1, <2>2 DEF Succeeded, Selected, Success
  <2>3. CASE SetsPll
    <3>1. stage >= 12 /\ stage \in Int
      BY <1>2, <2>1, <2>3, CallShape DEF Succeeded, StageFacts
    <3> QED
      BY <1>1, <2>1, <2>3, <3>1 DEF Selected, PllSet, Success
  <2> QED
    BY <1>2, <2>2, <2>3, CallShape DEF Succeeded
<1>3. CASE Stays
  <2>1. /\ result = "SUCCESS" /\ Shape(call)' = Shape(call) /\ SetsPll' = SetsPll
        /\ call' = call /\ Wanted(call)' = Wanted(call)
    BY <1>3 DEF Stays
  <2>2. sw = sws
    BY <1>1, <2>1 DEF Success
  <2>3. UNCHANGED <<sw, sws, pll>>
    BY <2>1, <2>2, SourcesKept, SettingsKept DEF HwSwitch, Moved
  <2> QED
    BY <1>1, <2>1, <2>3 DEF Success
<1>4. ~Failed /\ ~(\E o : Moved(o)) /\ ~(\E c : Begins(c))
  BY DEF Failed, Returned, Moved, Begins
<1> QED
  BY <1>2, <1>3, <1>4, StepKinds
\* At reset the PLL is off and SYSCLK on the MSI.
LEMMA PromptInit == Init => PromptInv
<1> SUFFICES ASSUME Init PROVE PromptInv
  OBVIOUS
<1>1. ClockIInv /\ call = Boot /\ Shape(call) = "boot" /\ result = "none" /\ sw = sws
      /\ sws # "PLL" /\ on = {"MSI"}
  BY ClockInit, PlanRequests DEF Init
<1>2. point = 1 /\ stage = 2
  <2>1. prog = Code(call)
    BY <1>1, BootIsCode DEF Init
  <2>2. Len(Code(call)) \in Nat
    BY CodeLength, <1>1
  <2>3. point = 1
    BY <2>1, <2>2 DEF point
  <2> QED
    BY <1>1, <2>3 DEF stage, StageOf
<1>3. InStep /\ PllSet /\ DividersSet /\ Success /\ call.mhz <= 64
  BY <1>1, <1>2 DEF InStep, PllSet, DividersSet, Success, Boot
<1>4. Limits
  BY <1>1, OscLimits DEF Limits, ClockIInv
<1> QED
  BY <1>3, <1>4 DEF PromptInv

\* What holds while SYSCLK follows in time is preserved by every step.
LEMMA PromptStep == LateInv /\ LateInv' /\ PromptInv /\ [Next]_vars => PromptInv'
<1> SUFFICES ASSUME LateInv, LateInv', PromptInv, [Next]_vars PROVE PromptInv'
  OBVIOUS
<1>1. InStep /\ PllSet /\ DividersSet /\ Limits /\ Success /\ call.mhz <= 64 /\ ClockIInv
  BY DEF PromptInv, LateInv
<1>2. InStep' /\ PllSet' /\ DividersSet' /\ Success' /\ call'.mhz <= 64
  BY <1>1, InStepStep, PllSetStep, DividersStep, SuccessStep, RangeStep
<1>3. Limits'
  BY <1>1, <1>2, LimitsStep
<1> QED
  BY <1>2, <1>3 DEF PromptInv

-----------------------------------------------------------------------------
(* The last call of dri_ClockConfig_Init. *)

\* The PLL that SYSCLK may still be on when the call begins is at 8 MHz, and the new
\* settings it may then take or ignore are within the range.
LEMMA LastPllStep ==
  ASSUME LateInv, LateInv', PromptInv, LastPll, [Next]_vars
  PROVE  LastPll'
<1> USE DEF LateInv
<1> SUFFICES ASSUME Firmware', call' = Pll64, result' = "none" PROVE LastPll'
  BY DEF LastPll
<1>1. Firmware /\ mode' = mode /\ lag = "short"
  BY PromptBefore DEF Firmware
<1>2. Shape(Pll64) = "pll" /\ PllMHz(Wanted(Pll64)) = 64
  <2>1. IsRequest(Pll64) /\ Pll64.mhz = 64
    BY DEF IsRequest, Pll64
  <2> QED
    BY <2>1, PlanRequests, WantedMHz
<1>3. ASSUME call = Pll64, result = "none"
      PROVE  /\ StageFacts /\ Selected /\ Shape(call) = "pll" /\ stage = point - 3
             /\ stage <= 7 /\ (sws = "PLL" \/ (stage = 7 /\ "PLL" \in on)) => PllMHz(pll) = 8
             /\ stage >= 8 => PllMHz(pll) <= 64
  BY <1>1, <1>2, <1>3, StagesAre DEF LastPll, ClockIInv, StageFacts
<1>4. ASSUME NEW o, Moved(o)
      PROVE  /\ call = Pll64 /\ result = "none" /\ stage' = stage + 1
             /\ Table(call, point, stage, o, Arg)
  BY <1>4 DEF Moved
<1>5. ASSUME NEW o \in Operations \ {"pll_off", "pll_cfg", "fail"}, Performs(o),
             UNCHANGED <<sws, pll>>
      PROVE  LastPll'
  <2>1. Moved(o)
    BY <1>5, Moves
  <2>2. stage \notin {6, 7}
    BY <1>3, <1>4, <1>5, <2>1 DEF Table, Operations, MsiShapes, PllShapes
  <2> QED
    BY <1>3, <1>4, <1>5, <2>1, <2>2 DEF LastPll, StageFacts
<1>6. CASE StartMsi \/ EnableOsc \/ RestartOsc \/ Ready \/ Switched \/ Select
           \/ SetDivider \/ PllOn \/ StopMsi
  BY <1>5, <1>6
     DEF StartMsi, EnableOsc, RestartOsc, Ready, Switched, Select, SetDivider, PllOn, StopMsi,
         Operations, hw
<1>7. CASE PllOff
  <2>1. Moved("pll_off")
    BY <1>7, Moves DEF PllOff
  <2>2. stage = 6
    BY <1>4, <2>1 DEF Table
  <2> QED
    BY <1>3, <1>4, <1>7, <2>1, <2>2 DEF PllOff, LastPll
<1>8. CASE PllCfg
  <2>1. Moved("pll_cfg")
    BY <1>8, Moves DEF PllCfg
  <2>2. stage = 7 /\ Arg = Wanted(Pll64)
    BY <1>4, <2>1 DEF Table
  <2>3. PllMHz(pll') <= 64
    BY <1>2, <1>3, <1>4, <1>8, <2>1, <2>2 DEF PllCfg
  <2> QED
    BY <1>4, <2>1, <2>2, <2>3 DEF LastPll
<1>9. CASE ReturnSuccess \/ StartTimeout \/ SwitchTimeout \/ ReturnNoFactor
  BY <1>9 DEF ReturnSuccess, StartTimeout, SwitchTimeout, ReturnNoFactor, Return
<1>10. CASE Hardware
  <2>1. Stays /\ UNCHANGED <<on, sw, pll>> /\ (sws' = sws \/ (sws' = sw /\ sw # sws))
    BY <1>10, HardwareStays DEF Hardware, HwSwitch, HwReady
  <2>2. call = Pll64 /\ result = "none" /\ stage' = stage
    BY <2>1 DEF Stays
  <2>3. stage <= 7 /\ sw # sws => sw = "MSI"
    <3>1. CASE point <= 5
      BY <1>1, <1>3, <2>2, <3>1, CallShape DEF LateToMsi, BeforeSelect
    <3>2. CASE point >= 6
      BY <1>3, <2>2, <3>2, CallShape DEF Selected, StageFacts
    <3> QED
      BY <1>3, <2>2, <3>1, <3>2 DEF StageFacts
  <2> QED
    BY <1>3, <2>1, <2>2, <2>3 DEF LastPll
<1>11. CASE DisableMsi
  BY <1>11 DEF DisableMsi, Idle
<1>12. CASE InitCall \/ AnyCall
  <2>1. PICK c : Begins(c)
    BY <1>12, Calling
  <2>2. /\ Shape(call)' = "pll" /\ point' = 1 /\ StageFacts' /\ result # "none"
        /\ UNCHANGED <<sws, pll>>
    BY <1>2, <2>1 DEF Begins, hw
  <2>3. stage' = -2
    BY <2>2 DEF StageFacts
  <2>4. call = Direct("HSE") /\ entry = "MSI"
    <3>1. InitCall
      BY <1>1, <1>12 DEF AnyCall, Firmware
    <3> QED
      BY <1>1, <3>1, InitCalls, PlanRequests DEF FirmwareOK, Firmware
  <2>5. sws = "PLL" => PllMHz(pll) = 8
    <3>1. CASE result = "SUCCESS"
      <4>1. \/ sws = call.osc /\ call.osc = "HSE"
            \/ SetsPll /\ pll = Wanted(call)
        BY <1>1, <2>4, <3>1, PlanRequests DEF PromptInv, Success, Prompt
      <4>2. SetsPll => PllMHz(Wanted(call)) = 8
        BY <2>4, CallShape, PlanRequests, WantedMHz DEF SetsPll, PllShapes
      <4> QED
        BY <4>1, <4>2
    <3>2. CASE result = "ERROR"
      BY <1>1, <2>4, <3>2 DEF LateToMsi
    <3> QED
      BY <2>2, <3>1, <3>2 DEF ClockIInv, ClockTypeOK
  <2> QED
    BY <2>2, <2>3, <2>5 DEF LastPll
<1>13. CASE UNCHANGED vars
  <2>1. UNCHANGED <<prog, call, result, chip, on, sws, pll>>
    BY <1>13 DEF vars, hw
  <2>2. stage' = stage
    BY <2>1, PlaceFixed
  <2> QED
    BY <1>3, <2>1, <2>2 DEF LastPll
<1> QED
  BY <1>6, <1>7, <1>8, <1>9, <1>10, <1>11, <1>12, <1>13 DEF Next, Function

\* While the call runs the limits hold.
LEMMA LastLimits ==
  ClockIInv /\ DividersSet /\ LastPll /\ Firmware /\ call = Pll64 /\ result = "none"
    => FlashOK /\ BusOK
<1> SUFFICES ASSUME ClockIInv, DividersSet, LastPll, Firmware, call = Pll64, result = "none"
             PROVE  FlashOK /\ BusOK
  OBVIOUS
<1>1. CASE sws # "PLL"
  BY <1>1, OscLimits DEF ClockIInv
<1>2. CASE sws = "PLL"
  <2>1. Shape(call) = "pll" /\ StageFacts /\ stage = point - 3
    BY PlanRequests, StagesAre DEF ClockIInv, StageFacts
  <2>2. PllMHz(pll) \in Nat
    <3>1. OscMHz(pll.osc) \div pll.div \in Nat /\ PllMul(pll.code) \in Nat
      BY DEF ClockIInv, ClockTypeOK, OscMHz, PllMul
    <3> QED
      BY <3>1 DEF PllMHz
  <2>3. CASE stage <= 7
    <3>1. SysMHz = 8
      BY <1>2, <2>3 DEF LastPll, SysMHz
    <3> QED
      BY <3>1 DEF FlashOK, BusOK, ClockIInv, ClockTypeOK
  <2>4. CASE stage >= 8
    <3>1. SysMHz \in Nat /\ SysMHz <= 64
      BY <1>2, <2>2, <2>4 DEF LastPll, SysMHz
    <3>2. latency = 2 /\ div2 = 2 /\ div1 = 4
      BY <2>1, <2>4, PlanRequests DEF DividersSet, StageFacts, Pclk1Div, Pclk2Div
    <3> QED
      BY <3>1, <3>2 DEF FlashOK, BusOK
  <2> QED
    BY <2>1, <2>3, <2>4 DEF StageFacts
<1> QED
  BY <1>1, <1>2

\* And after it, whether it has succeeded or left SYSCLK on its way to the MSI.
LEMMA LastCallStep ==
  ASSUME LateInv, LateInv', PromptInv, PromptInv', LastCall, [Next]_vars
  PROVE  LastCall'
<1> USE DEF LateInv
<1>1. LastPll'
  BY LastPllStep DEF LastCall
<1> SUFFICES ASSUME Firmware', call' = Pll64 PROVE (FlashOK /\ BusOK)'
  BY <1>1 DEF LastCall
<1>2. (ClockTypeOK /\ sws # "PLL" => FlashOK /\ BusOK)'
  BY OscLimits, PTL
<1>3. (ClockIInv /\ DividersSet /\ LastPll /\ Firmware /\ call = Pll64 /\ result = "none"
         => FlashOK /\ BusOK)'
  BY LastLimits, PTL
<1>4. Firmware /\ lag = "short"
  BY PromptBefore DEF Firmware
<1>5. CASE result' = "none"
  BY <1>1, <1>3, <1>5 DEF PromptInv
<1>6. CASE result' # "none"
  <2>1. Succeeded \/ Failed \/ Stays
    BY <1>6, StepKinds DEF Moved, Begins
  <2>2. call = Pll64 /\ FlashOK /\ BusOK
    BY <1>4, <2>1 DEF Succeeded, Failed, Returned, Stays, LastCall
  <2>3. CASE UNCHANGED <<sws, latency, div1, div2, pll>>
    BY <2>2, <2>3 DEF FlashOK, BusOK, SysMHz
  <2>4. CASE Stays
    <3>1. result # "none" /\ UNCHANGED <<latency, div1, div2, pll>>
      BY <1>6, <2>4, SettingsKept DEF Stays
    <3>2. sws' = sws \/ sws' = "MSI"
      <4>1. sw = sws \/ sw = "MSI"
        BY <1>4, <3>1 DEF LateToMsi
      <4> QED
        BY <3>1, <4>1, SourcesKept DEF HwSwitch, Moved
    <3>3. CASE sws' = "MSI"
      BY <1>2, <3>3 DEF ClockIInv
    <3> QED
      BY <2>3, <3>1, <3>2, <3>3
  <2> QED
    BY <2>1, <2>3, <2>4 DEF Succeeded, Failed, Returned, hw
<1> QED
  BY <1>5, <1>6

\* What is invariant while SYSCLK follows in time.
LEMMA InTimeInvariance == Spec => [](LateInv /\ PromptInv /\ LastCall)
<1>1. Init => PromptInv /\ LastCall
  <2>1. Init => call # Pll64
    BY PlanRequests DEF Init
  <2> QED
    BY <2>1, PromptInit DEF LastCall, LastPll
<1>2. LateInv /\ LateInv' /\ PromptInv /\ LastCall /\ [Next]_vars => PromptInv' /\ LastCall'
  BY PromptStep, LastCallStep
<1> QED
  BY <1>1, <1>2, LateInvariance, PTL DEF Spec

\* At every instant the flash has the wait states that SYSCLK needs, and the
\* peripheral buses run within their limits: for any order of requests in the
\* part's range when SYSCLK follows a selection at once, and for SystemInit and
\* dri_ClockConfig_Init as long as no wait for the switch times out.
THEOREM LimitsAreKept == Spec => []ClockLimits
<1>1. PromptInv /\ LastCall => ClockLimits
  BY DEF PromptInv, LastCall, Limits, Prompt, Firmware, ClockLimits
<1> QED
  BY <1>1, InTimeInvariance, PTL

\* A function that returns SUCCESS has SYSCLK at the frequency and from the
\* source asked for, when SYSCLK follows at once, and RCC_GetClocksFreqValue
\* reads that frequency back from the registers.
THEOREM SuccessIsClock == Spec => []SuccessMeansClock
<1>1. LateInv /\ PromptInv => SuccessMeansClock
  <2> SUFFICES ASSUME ClockIInv, PromptInv, lag = "none", result = "SUCCESS"
               PROVE  /\ SysMHz = call.mhz /\ InUse(call.osc)
                      /\ RCC_GetClocksFreqValue = call.mhz
    BY DEF LateInv, SuccessMeansClock
  <2>1. CASE Shape(call) = "direct" /\ sws = call.osc
    <3>1. call # Boot /\ call.osc \in Oscillators /\ call.mhz = OscMHz(call.osc)
      BY <2>1, CallShape, Shapes, Requests
    <3> QED
      BY <2>1, <3>1 DEF SysMHz, InUse, RCC_GetClocksFreqValue, Oscillators
  <2>2. CASE SetsPll /\ sws = "PLL" /\ pll = Wanted(call)
    <3>1. /\ pll.osc = call.osc /\ PllMHz(pll) = call.mhz
          /\ pll.code \in Nat /\ pll.code # 15
      BY <2>2, CallShape, WantedMHz DEF SetsPll, PllShapes
    <3>2. (IF pll.code < 16 THEN pll.code + 2 ELSE pll.code + 512 - 16 - 496 + 1)
          = PllMul(pll.code)
      BY <3>1 DEF PllMul
    <3> QED
      BY <2>2, <3>1, <3>2 DEF SysMHz, InUse, RCC_GetClocksFreqValue, PllMHz
  <2> QED
    BY <2>1, <2>2 DEF PromptInv, Success, Prompt
<1> QED
  BY <1>1, InTimeInvariance, PTL
=============================================================================
