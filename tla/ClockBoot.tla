------------------------------ MODULE ClockBoot ------------------------------
(***************************************************************************)
(* The way from reset to the tick, as the well_lid project builds it: the  *)
(* reset handler of startup_n32l40x.s calls SystemInit and then __main,    *)
(* which copies the initial values of the variables from flash, and main   *)
(* programs SysTick from SystemCoreClock.  main changes no clock: its call *)
(* of dri_ClockConfig_Init is commented out.                               *)
(***************************************************************************)
EXTENDS ClockConfig

VARIABLES
    at,       \* "SystemInit", "main" or "loop", the endless loop of main
    tick_mhz  \* the clock that SysTick's reload value is computed for, or 0

bootVars == <<vars, at, tick_mhz>>

\* SYSCLK_FREQ, the initial value of SystemCoreClock.
SYSCLK_FREQ == 64

BootInit == Init /\ at = "SystemInit" /\ tick_mhz = 0

SystemInit ==
    /\ at = "SystemInit" /\ Function
    /\ UNCHANGED <<at, tick_mhz>>

\* __main, once SystemInit has returned.
DataInit ==
    /\ at = "SystemInit" /\ Idle
    /\ SystemCoreClock' = SYSCLK_FREQ
    /\ at' = "main"
    /\ UNCHANGED <<prog, call, result, plan, hw, msi_ready_flag, chip, entry, mode,
                   tick_mhz>>

\* SysTick_Config(SystemCoreClock / (1000U / uwTickFrequency))
dri_systick_1ms_IRQ_init ==
    /\ at = "main"
    /\ tick_mhz' = SystemCoreClock
    /\ at' = "loop"
    /\ UNCHANGED vars

BootNext ==
    \/ SystemInit \/ DataInit \/ dri_systick_1ms_IRQ_init
    \/ Hardware /\ UNCHANGED <<at, tick_mhz>>

BootSpec == BootInit /\ [][BootNext]_bootVars

\* Nobody asks for another clock; SYSCLK may take its time.
BootModes == {[caller |-> "any", lag |-> "long"]}

-----------------------------------------------------------------------------

\* system_n32l40x.c:215 "Initialize the Embedded Flash Interface, the PLL and
\* update the SystemCoreClock variable": what SysTick's reload value is
\* computed from after SystemInit is the clock that the core runs at.
TickFromCoreClock == at = "loop" => tick_mhz = SysMHz
=============================================================================
