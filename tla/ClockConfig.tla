----------------------------- MODULE ClockConfig -----------------------------
(***************************************************************************)
(* The clock tree of the well_lid firmware: SystemInit, which leaves the   *)
(* part on the PLL at 64 MHz, and the SetSysClockTo functions of           *)
(* dri_ClockConfig.c, which move SYSCLK between MSI, HSI, HSE and PLL.     *)
(* main does not call the latter at present (its call of                   *)
(* dri_ClockConfig_Init is commented out); what it runs is ClockBoot.      *)
(*                                                                         *)
(* Each function is the sequence of register operations it performs; one   *)
(* action interprets each kind of operation, and the hardware (oscillator  *)
(* start-up, PLL lock, switch of SYSCLK) runs beside it.  Frequencies are  *)
(* in MHz.  HCLK is always SYSCLK.                                         *)
(***************************************************************************)
EXTENDS Naturals, Sequences

CONSTANTS
    Calls,  \* the requests the application makes, records [to, mhz, osc, div]
    Chips,  \* SUBSET {"old", "new"}: UCID branch of the HSI and HSE functions
    Modes   \* who makes the requests and how long SYSCLK may take to follow
            \* SCLKSW, records [caller, lag]

VARIABLES
    prog,       \* operations the running function still has to perform
    call,       \* the request being served, or the last one
    result,     \* "none" while a function runs, then its ErrorStatus
    plan,       \* requests dri_ClockConfig_Init has still to make
    on, rdy,    \* oscillators (and PLL) enabled, and ready
    sw, sws,    \* SCLKSW and SCLKSTS: the source selected, the source in use
    pll,        \* PLL source, divider and PLLMULFCT, the multiplier's code
    latency, div1, div2,  \* flash wait states, PCLK1 and PCLK2 dividers
    msi_ready_flag,       \* this function turned the MSI on
    SystemCoreClock,
    chip,
    entry,      \* history: source in use when the running function was called
    mode        \* one of Modes, fixed

\* When the new source is ready, SYSCLK follows before the next operation, some
\* operations later but within any timeout, or at any time.
AllLags == {"none", "short", "long"}

\* dri_ClockConfig_Init, or an application that changes its clock at will.
AllCallers == {"firmware", "any"}

lag == mode.lag

hw == <<on, rdy, sw, sws, pll, latency, div1, div2>>
vars == <<prog, call, result, plan, hw, msi_ready_flag, SystemCoreClock, chip, entry, mode>>

Oscillators == {"MSI", "HSI", "HSE"}
Sources == Oscillators \cup {"PLL"}

\* MSI_VALUE_L6, HSI_VALUE and HSE_VALUE.
OscMHz(o) == IF o = "MSI" THEN 4 ELSE IF o = "HSI" THEN 16 ELSE 8

\* RCC_CFG_PLLMULFCT2 .. 32: the multiplier the chip makes of the code, bit 27
\* counting as bit 4; the last code of the first half repeats 16.
PllMul(code) == IF code < 15 THEN code + 2 ELSE code + 1

PllMHz(p) == (OscMHz(p.osc) \div p.div) * PllMul(p.code)

\* The frequency SYSCLK runs at.
SysMHz == IF sws = "PLL" THEN PllMHz(pll) ELSE OscMHz(sws)

InUse(o) == sws = o \/ (sws = "PLL" /\ pll.osc = o)

Boot == [to |-> "boot", mhz |-> 64, osc |-> "HSE", div |-> 2]

-----------------------------------------------------------------------------
(* The functions, as sequences of operations. *)

Operations == {"start_msi", "enable", "restart", "await", "spin", "select",
               "switched", "spin_switched", "latency", "pclk2", "pclk1",
               "pll_off", "pll_cfg", "pll_on", "stop_msi", "fail"}

Do(o, a) == [op |-> o, arg |-> a]

Start(how, osc) == <<Do(how, osc), Do("await", osc)>>
SwitchTo(s) == <<Do("select", s), Do("switched", s)>>
Prescale(lat, d2, d1) == <<Do("latency", lat), Do("pclk2", d2), Do("pclk1", d1)>>

\* The MSI is what the PLL functions fall back on while they set up the PLL;
\* none of them waits for SYSCLK to have moved to it.
RunFromMsi == Start("start_msi", "MSI") \o <<Do("select", "MSI")>>

\* pllmul: (mul - 2) << 18, or (mul - 17) << 18 with bit 27.
PllMulCode(mul) == IF mul <= 16 THEN mul - 2 ELSE (mul - 17) + 16

\* Starting the PLL without waiting for SYSCLK to be on it.
StartPll_NoSwitchWait(osc, d, mul) ==
    <<Do("pll_off", 0), Do("pll_cfg", [osc |-> osc, div |-> d, code |-> PllMulCode(mul)]),
      Do("pll_on", 0), Do("await", "PLL"), Do("select", "PLL"), Do("stop_msi", 0)>>

\* The PLL is reprogrammed, locked and selected; the MSI is stopped again.
StartPll(osc, d, mul) ==
    <<Do("pll_off", 0), Do("pll_cfg", [osc |-> osc, div |-> d, code |-> PllMulCode(mul)]),
      Do("pll_on", 0), Do("await", "PLL")>>
    \o SwitchTo("PLL") \o <<Do("stop_msi", 0)>>

\* SystemInit and SetSysClock with the HSE PLL at 64 MHz; its two last waits
\* have no timeout.
SetSysClock ==
    Start("enable", "HSE") \o Prescale((64 - 1) \div 32, 2, 4)
    \o <<Do("pll_cfg", [osc |-> "HSE", div |-> 2, code |-> PllMulCode(16)]), Do("pll_on", 0),
         Do("spin", "PLL"), Do("select", "PLL"), Do("spin_switched", "PLL")>>

\* SetSysClockToMSI with the prescalers set before SYSCLK is slow.
SetSysClockToMSI_PrescaleFirst ==
    Start("start_msi", "MSI") \o Prescale(0, 1, 1) \o SwitchTo("MSI")

SetSysClockToMSI == Start("start_msi", "MSI") \o SwitchTo("MSI") \o Prescale(0, 1, 1)

SetSysClockToHSI ==
    Start("enable", "HSI")
    \o (IF chip = "old" THEN RunFromMsi \o StartPll("HSI", 2, 2) ELSE SwitchTo("HSI"))
    \o Prescale(0, 1, 1)

\* SetSysClockToHSE that selects the HSE before it is known to be ready.
SetSysClockToHSE_SelectFirst ==
    <<Do("select", "HSE")>> \o Start("restart", "HSE") \o Prescale(0, 1, 1)

SetSysClockToHSE ==
    Start("restart", "HSE")
    \o (IF chip = "old" THEN RunFromMsi \o StartPll("HSE", 2, 2) ELSE SwitchTo("HSE"))
    \o Prescale(0, 1, 1)

Pclk1Div(f) == IF f > 32 THEN 4 ELSE IF f > 16 THEN 2 ELSE 1
Pclk2Div(f) == IF f > 32 THEN 2 ELSE 1

MakesFactor_NoRemainder(c) ==
    LET clk == OscMHz(c.osc) \div c.div
    IN  c.mhz \div clk \in 2 .. 32

\* A multiplier of the PLL source reaches freq.
MakesFactor(c) ==
    LET clk == OscMHz(c.osc) \div c.div
    IN  c.mhz % clk = 0 /\ c.mhz \div clk \in 2 .. 32

SetSysClockToPLL(c) ==
    Start("restart", c.osc)
    \o IF MakesFactor(c)
       THEN RunFromMsi \o Prescale(c.mhz \div 32, Pclk2Div(c.mhz), Pclk1Div(c.mhz))
            \o StartPll(c.osc, c.div, c.mhz \div (OscMHz(c.osc) \div c.div))
       ELSE <<Do("fail", 0)>>

BodyOf(c) == IF c.to = "PLL" THEN SetSysClockToPLL(c)
             ELSE IF c.to = "HSE" THEN SetSysClockToHSE
             ELSE IF c.to = "HSI" THEN SetSysClockToHSI
             ELSE SetSysClockToMSI

Direct(o) == [to |-> o, mhz |-> OscMHz(o), osc |-> o, div |-> 1]
Pll64 == [to |-> "PLL", mhz |-> 64, osc |-> "HSE", div |-> 1]

\* What can be asked for: an oscillator, or any frequency from the PLL, whose
\* source SYSCLK_PLLSRC names with its two dividers by 2.
IsRequest(c) ==
    \/ \E o \in Oscillators : c = Direct(o)
    \/ c.to = "PLL" /\ c.osc \in {"HSI", "HSE"} /\ c.div \in {1, 2, 4} /\ c.mhz \in Nat

ASSUME ClockAssumption ==
    /\ Modes \subseteq [caller : AllCallers, lag : AllLags]
    /\ Chips \subseteq {"old", "new"}
    /\ \A c \in Calls : IsRequest(c)

\* Nobody asks for more than the part is made for.
ASSUME RangeAssumption == \A c \in Calls : c.mhz <= 64

-----------------------------------------------------------------------------

\* The reset state at the entry of SetSysClock.
Init ==
    /\ prog = SetSysClock /\ call = Boot /\ result = "none"
    /\ mode \in Modes
    /\ plan = IF mode.caller = "firmware" THEN <<Direct("MSI"), Direct("HSE"), Pll64>>
              ELSE <<>>
    /\ on = {"MSI"} /\ rdy = {"MSI"} /\ sw = "MSI" /\ sws = "MSI"
    /\ pll = [osc |-> "HSI", div |-> 1, code |-> 0]
    /\ latency = 0 /\ div1 = 1 /\ div2 = 1
    /\ msi_ready_flag = FALSE
    /\ SystemCoreClock = 64
    /\ chip \in Chips
    /\ entry = "MSI"

\* The hardware has caught up with SCLKSW, when it is that prompt.
Settled == lag # "none" \/ sw = sws \/ sw \notin rdy

\* The next operation is o, and it is consumed.
Performs(o) ==
    /\ prog # <<>> /\ Settled
    /\ Head(prog).op = o
    /\ prog' = Tail(prog)
    /\ UNCHANGED <<call, result, plan, chip, entry, mode>>

Arg == Head(prog).arg

\* if (MSIRD == RESET) { RCC_ConfigMsi(ENABLE); ... msi_ready_flag = SET; }
StartMsi ==
    /\ Performs("start_msi")
    /\ on' = IF "MSI" \in rdy THEN on ELSE on \cup {"MSI"}
    /\ msi_ready_flag' = ("MSI" \notin rdy)
    /\ UNCHANGED <<rdy, sw, sws, pll, latency, div1, div2, SystemCoreClock>>

\* RCC_EnableHsi(ENABLE), RCC_CTRL_HSEEN: the enable bit is set.
EnableOsc ==
    /\ Performs("enable")
    /\ on' = on \cup {Arg}
    /\ UNCHANGED <<rdy, sw, sws, pll, latency, div1, div2, msi_ready_flag, SystemCoreClock>>

\* RCC_ConfigHse and RCC_ConfigHsi clear the enable bit, then set it: an
\* oscillator that SYSCLK uses does not stop, another one starts again and
\* with it a PLL it feeds.
RestartOsc ==
    /\ Performs("restart")
    /\ on' = on \cup {Arg}
    /\ rdy' = IF InUse(Arg) THEN rdy
              ELSE rdy \ ({Arg} \cup (IF pll.osc = Arg THEN {"PLL"} ELSE {}))
    /\ UNCHANGED <<sw, sws, pll, latency, div1, div2, msi_ready_flag, SystemCoreClock>>

\* A wait whose condition holds: ready flags, then SCLKSTS.
Ready ==
    /\ Performs("await") \/ Performs("spin")
    /\ Arg \in rdy
    /\ UNCHANGED <<hw, msi_ready_flag, SystemCoreClock>>

Switched ==
    /\ Performs("switched") \/ Performs("spin_switched")
    /\ sws = Arg
    /\ UNCHANGED <<hw, msi_ready_flag, SystemCoreClock>>

\* RCC_ConfigSysclk writes SCLKSW.
Select ==
    /\ Performs("select")
    /\ sw' = Arg
    /\ UNCHANGED <<on, rdy, sws, pll, latency, div1, div2, msi_ready_flag, SystemCoreClock>>

\* FLASH_SetLatency, RCC_ConfigPclk2, RCC_ConfigPclk1.
SetDivider ==
    /\ \/ /\ Performs("latency") /\ latency' = Arg
          /\ UNCHANGED <<div1, div2>>
       \/ /\ Performs("pclk2") /\ div2' = Arg
          /\ UNCHANGED <<latency, div1>>
       \/ /\ Performs("pclk1") /\ div1' = Arg
          /\ UNCHANGED <<latency, div2>>
    /\ UNCHANGED <<on, rdy, sw, sws, pll, msi_ready_flag, SystemCoreClock>>

\* RCC_EnablePll(DISABLE): a PLL used as system clock is not disabled.
PllOff ==
    /\ Performs("pll_off")
    /\ on' = IF sws = "PLL" THEN on ELSE on \ {"PLL"}
    /\ rdy' = IF sws = "PLL" THEN rdy ELSE rdy \ {"PLL"}
    /\ UNCHANGED <<sw, sws, pll, latency, div1, div2, msi_ready_flag, SystemCoreClock>>

\* RCC_ConfigPll: a PLL that is on may take the new settings or ignore them.
PllCfg ==
    /\ Performs("pll_cfg")
    /\ pll' = Arg \/ ("PLL" \in on /\ pll' = pll)
    /\ UNCHANGED <<on, rdy, sw, sws, latency, div1, div2, msi_ready_flag, SystemCoreClock>>

PllOn ==
    /\ Performs("pll_on")
    /\ on' = on \cup {"PLL"}
    /\ UNCHANGED <<rdy, sw, sws, pll, latency, div1, div2, msi_ready_flag, SystemCoreClock>>

\* if (msi_ready_flag == SET) RCC_ConfigMsi(RCC_MSI_DISABLE)
StopMsi ==
    /\ Performs("stop_msi")
    /\ on' = IF msi_ready_flag THEN on \ {"MSI"} ELSE on
    /\ rdy' = IF msi_ready_flag THEN rdy \ {"MSI"} ELSE rdy
    /\ UNCHANGED <<sw, sws, pll, latency, div1, div2, msi_ready_flag, SystemCoreClock>>

\* The function returns.
Return(status) ==
    /\ prog' = <<>>
    /\ result' = status
    /\ UNCHANGED <<call, plan, hw, msi_ready_flag, chip, entry, mode>>

ReturnSuccess ==
    /\ prog = <<>> /\ result = "none" /\ Settled
    /\ Return("SUCCESS")
    /\ UNCHANGED SystemCoreClock

\* No multiplier gives the requested frequency.
ReturnNoFactor ==
    /\ prog # <<>> /\ Head(prog).op = "fail"
    /\ Return("ERROR")
    /\ UNCHANGED SystemCoreClock

\* Oscillator and PLL waits without a timeout after boot.
StartTimeout_BootOnly ==
    /\ prog # <<>> /\ Head(prog).op = "await" /\ Arg \notin rdy
    /\ call = Boot
    /\ Return("ERROR")
    /\ SystemCoreClock' = 4

\* A ready flag is not set within its timeout.  At boot SetSysClock records
\* the MSI frequency and gives up.
StartTimeout ==
    /\ prog # <<>> /\ Head(prog).op = "await" /\ Arg \notin rdy
    /\ Return("ERROR")
    /\ SystemCoreClock' = IF call = Boot THEN 4 ELSE SystemCoreClock

\* SYSCLK has not moved within the timeout: 0xFFFFFF polls outlast the switch
\* to a source that is ready unless lag is "long".
SwitchTimeout ==
    /\ prog # <<>> /\ Head(prog).op = "switched" /\ sws # Arg
    /\ lag = "long" \/ Arg \notin rdy
    /\ Return("ERROR")
    /\ UNCHANGED SystemCoreClock

Function ==
    \/ StartMsi \/ EnableOsc \/ RestartOsc \/ Ready \/ Switched \/ Select
    \/ SetDivider \/ PllOff \/ PllCfg \/ PllOn \/ StopMsi
    \/ ReturnSuccess \/ ReturnNoFactor \/ StartTimeout \/ SwitchTimeout

\* RCC_GetClocksFreqValue's SysclkFreq, computed from the same registers.
RCC_GetClocksFreqValue ==
    IF sws = "PLL"
    THEN (OscMHz(pll.osc) \div pll.div)
         * (IF pll.code < 16 THEN pll.code + 2 ELSE pll.code + 512 - 16 - 496 + 1)
    ELSE OscMHz(sws)

-----------------------------------------------------------------------------
(* The hardware. *)

\* An oscillator becomes stable; the PLL locks once its source is stable.
HwReady(x) ==
    /\ x \in on \ rdy
    /\ x = "PLL" => pll.osc \in rdy
    /\ rdy' = rdy \cup {x}
    /\ UNCHANGED <<on, sw, sws, pll, latency, div1, div2>>
    /\ UNCHANGED <<prog, call, result, plan, msi_ready_flag, SystemCoreClock, chip, entry, mode>>

\* SYSCLK follows SCLKSW once the selected source is ready.
HwSwitch ==
    /\ sw # sws /\ sw \in rdy
    /\ sws' = sw
    /\ UNCHANGED <<on, rdy, sw, pll, latency, div1, div2>>
    /\ UNCHANGED <<prog, call, result, plan, msi_ready_flag, SystemCoreClock, chip, entry, mode>>

Hardware == HwSwitch \/ \E x \in Sources : HwReady(x)

-----------------------------------------------------------------------------
(* The callers. *)

Idle == prog = <<>> /\ result # "none" /\ Settled

Begin(c) ==
    /\ Idle
    /\ call' = c /\ prog' = BodyOf(c) /\ result' = "none"
    /\ msi_ready_flag' = FALSE
    /\ entry' = sws
    /\ UNCHANGED <<hw, SystemCoreClock, chip, mode>>

\* dri_ClockConfig_Init calls MSI, HSE, PLL in this order, whatever each
\* returns.
InitCall ==
    /\ plan # <<>>
    /\ Begin(Head(plan))
    /\ plan' = Tail(plan)

\* An application that changes its clock at will...
AnyCall == mode.caller = "any" /\ \E c \in Calls : Begin(c) /\ UNCHANGED plan

\* ... and saves power with RCC_EnableMsi(DISABLE) while SYSCLK is elsewhere.
DisableMsi ==
    /\ Idle /\ mode.caller = "any" /\ "MSI" \in on /\ sw # "MSI" /\ sws # "MSI"
    /\ on' = on \ {"MSI"} /\ rdy' = rdy \ {"MSI"}
    /\ UNCHANGED <<sw, sws, pll, latency, div1, div2>>
    /\ UNCHANGED <<prog, call, result, plan, msi_ready_flag, SystemCoreClock, chip, entry, mode>>

Next == Function \/ Hardware \/ InitCall \/ AnyCall \/ DisableMsi

\* The processor runs; the hardware promises nothing, but that SYSCLK follows
\* where it is assumed to do so within the timeouts.
Spec == Init /\ [][Next]_vars /\ WF_vars(Function \/ (lag # "long" /\ HwSwitch))

-----------------------------------------------------------------------------

\* At every instant of every switch the flash has at least the wait states
\* that SYSCLK needs (none up to 32 MHz, one up to 64 MHz), PCLK1 is at most
\* 16 MHz and PCLK2 at most 32 MHz (system_n32l40x.c:576 and 586).  This holds
\* of dri_ClockConfig_Init while no wait for the switch times out, and of any
\* order of requests when SYSCLK follows at once: the PLL functions go on from
\* the switch to the MSI without waiting for it.
FlashOK == SysMHz <= 32 * (latency + 1)
BusOK == SysMHz <= 16 * div1 /\ SysMHz <= 32 * div2

ClockLimits ==
    lag = "none" \/ (mode.caller = "firmware" /\ lag = "short") => FlashOK /\ BusOK

\* SYSCLK never stops: its source is on and ready, and so is the PLL's.
ClockAlive == sws \in rdy /\ (sws = "PLL" => pll.osc \in rdy)

\* A function that returns SUCCESS has SYSCLK at the frequency asked for,
\* from the source asked for, directly or through the PLL, when SYSCLK follows
\* at once; otherwise a PLL that was still on may have ignored its settings.
\* RCC_GetClocksFreqValue, which dri_ClockConfig_DumpClock prints, decodes that
\* frequency again, on both sides of a multiplier of 16.
SuccessMeansClock ==
    lag = "none" /\ result = "SUCCESS" =>
        /\ SysMHz = call.mhz /\ InUse(call.osc)
        /\ RCC_GetClocksFreqValue = call.mhz

\* When the HSE step of dri_ClockConfig_Init fails, the system keeps running
\* from the MSI it was on, unless the switch it gave up on comes later
\* (dri_ClockConfig.c:63).
HseFailureKeepsMsi ==
    lag # "long" /\ result = "ERROR" /\ call.to = "HSE" /\ entry = "MSI" => sws = "MSI"

\* Every SetSysClockTo function returns, whatever the hardware does.
ConfigReturns == prog # <<>> /\ call # Boot ~> result # "none"
=============================================================================
