---------------------------- MODULE ClockConfigMC ----------------------------
(* Requests for the clock configuration: the three direct sources, and PLL  *)
(* frequencies on both sides of the divider thresholds and of a multiplier  *)
(* of 16, two of them that their source cannot make.  dri_ClockConfig_Init  *)
(* runs with SYSCLK following a little late, any order of requests with     *)
(* SYSCLK following at once or at any time.                                 *)
EXTENDS ClockConfig

PllCall(f, o, d) == [to |-> "PLL", mhz |-> f, osc |-> o, div |-> d]

McCalls == {Direct("MSI"), Direct("HSI"), Direct("HSE"), Pll64,
            PllCall(64, "HSI", 4), PllCall(32, "HSE", 2), PllCall(34, "HSE", 4),
            PllCall(36, "HSE", 1), PllCall(16, "HSI", 1)}

McModes == {[caller |-> "firmware", lag |-> "short"],
            [caller |-> "any", lag |-> "none"],
            [caller |-> "any", lag |-> "long"]}
=============================================================================
