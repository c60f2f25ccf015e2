--------------------------------- MODULE Board ---------------------------------
(***************************************************************************)
(* The start of the board: board_init of firmware/src/board.c, after       *)
(* SystemInit of firmware/src/system.c, with the clocks and the pins of    *)
(* the STM32F103 that it sets up.                                          *)
(*                                                                         *)
(* Each step is one write to a register, or one poll of wait_for_bits.     *)
(* The hardware makes its progress between any two of them: oscillator and *)
(* PLL become ready, and the system clock follows the SW field, at some    *)
(* time or never.  Frequencies are in MHz.                                 *)
(***************************************************************************)
EXTENDS Integers

CONSTANT HSE_STARTUP_TIMEOUT    \* polls of wait_for_bits, at least one

HSI_CLOCK == 8
HSE_CLOCK == 16
PLL_CLOCK == 48

(* PB5, 6, 7, 12, 13, 14 and PC13, in the order in which they become       *)
(* outputs.                                                                *)
Outputs == <<"DRV_R_SLEEP_N", "DRV_R_PH", "DRV_R_EN",
             "DRV_L_SLEEP_N", "DRV_L_PH", "DRV_L_EN", "LED_HEARTBEAT">>
Pins == {Outputs[i] : i \in 1 .. 7}
MOTOR_OUTPUT_PINS == Pins \ {"LED_HEARTBEAT"}

VARIABLES
  pc, remaining,
  level,             \* output data registers
  outputs,           \* pins that drive their level
  hse, pll,          \* "off", "starting", "ready"
  cfgr,              \* RCC->CFGR without SWS
  sws,               \* its field SWS: the clock in use
  wait_states,       \* FLASH->ACR
  SystemCoreClock,
  ticks              \* SysTick->LOAD + 1, in thousands; 0 while it is off

gpio == <<level, outputs>>
clocks == <<hse, pll, cfgr, sws, wait_states>>
vars == <<pc, remaining, gpio, clocks, SystemCoreClock, ticks>>

-----------------------------------------------------------------------------
(* The clock tree, as the reference manual draws it.                       *)

PllInput(c) ==
  IF ~c.PLLSRC THEN HSI_CLOCK \div 2
  ELSE IF c.PLLXTPRE THEN HSE_CLOCK \div 2 ELSE HSE_CLOCK
PllOutput(c) == PllInput(c) * (c.PLLMULL + 2)

Sysclk ==
  CASE sws = "HSI" -> HSI_CLOCK [] sws = "HSE" -> HSE_CLOCK [] sws = "PLL" -> PllOutput(cfgr)

Running == sws = "PLL" => pll = "ready" /\ (cfgr.PLLSRC => hse = "ready")

-----------------------------------------------------------------------------

Init ==
  /\ pc = "levels" /\ remaining = 0
  /\ level = [p \in Pins |-> FALSE] /\ outputs = {}
  /\ hse = "off" /\ pll = "off" /\ sws = "HSI"
  /\ cfgr = [SW |-> "HSI", HPRE |-> 0, PPRE1 |-> 1, PPRE2 |-> 1, ADCPRE |-> 2,
             PLLSRC |-> FALSE, PLLXTPRE |-> FALSE, PLLMULL |-> 0, USBPRE |-> FALSE]
  /\ wait_states = 0
  /\ SystemCoreClock = HSI_CLOCK
  /\ ticks = 0

(* Makes the pins outputs without their levels.                            *)
NoLevels ==
  /\ pc = "levels" /\ pc' = "outputs"
  /\ UNCHANGED <<remaining, gpio, clocks, SystemCoreClock, ticks>>

(* The two writes to BSRR.                                                 *)
SafeLevels ==
  /\ pc = "levels" /\ pc' = "outputs"
  /\ level' = [p \in Pins |-> p \notin MOTOR_OUTPUT_PINS]
  /\ UNCHANGED <<remaining, outputs, clocks, SystemCoreClock, ticks>>

gpio_configure_push_pull_output(p) ==
  /\ pc = "outputs"
  /\ \E i \in 1 .. 7 :
       /\ p = Outputs[i]
       /\ \A j \in 1 .. 7 : Outputs[j] \in outputs <=> j < i
       /\ pc' = IF i = 7 THEN "hse_on" ELSE pc
  /\ outputs' = outputs \cup {p}
  /\ UNCHANGED <<remaining, level, clocks, SystemCoreClock, ticks>>

HseOn ==
  /\ pc = "hse_on" /\ pc' = "hse_wait"
  /\ hse' = "starting"
  /\ remaining' = HSE_STARTUP_TIMEOUT
  /\ UNCHANGED <<gpio, pll, cfgr, sws, wait_states, SystemCoreClock, ticks>>

(* One turn of the loop of wait_for_bits.                                  *)
wait_for_bits(at, bits, found, timeout) ==
  /\ pc = at
  /\ IF bits THEN pc' = found /\ UNCHANGED remaining
     ELSE /\ remaining' = remaining - 1
          /\ pc' = IF remaining = 1 THEN timeout ELSE at
  /\ UNCHANGED <<gpio, clocks, SystemCoreClock, ticks>>

HseWait == wait_for_bits("hse_wait", hse = "ready", "flash", "hse_failed")
PllWait == wait_for_bits("pll_wait", pll = "ready", "switch", "pll_failed")
SwitchWait == wait_for_bits("switch_wait", sws = "PLL", "switched", "switch_failed")

HseFailed ==
  /\ pc = "hse_failed" /\ pc' = "systick_hsi"
  /\ hse' = "off"
  /\ SystemCoreClock' = HSI_CLOCK
  /\ UNCHANGED <<remaining, gpio, pll, cfgr, sws, wait_states, ticks>>

(* FLASH_ACR_LATENCY_0 is one wait state.                                  *)
Flash ==
  /\ pc = "flash" /\ pc' = "configure"
  /\ wait_states' = 1
  /\ UNCHANGED <<remaining, gpio, hse, pll, cfgr, sws, SystemCoreClock, ticks>>

(* RCC_CFGR_PLLMULL6 is 4 in the field; RCC_CFGR_USBPRE does not divide.   *)
Configure ==
  /\ pc = "configure" /\ pc' = "pll_on"
  /\ cfgr' = [SW |-> "HSI", HPRE |-> 0, PPRE1 |-> 2, PPRE2 |-> 1, ADCPRE |-> 4,
              PLLSRC |-> TRUE, PLLXTPRE |-> TRUE, PLLMULL |-> 4, USBPRE |-> TRUE]
  /\ UNCHANGED <<remaining, gpio, hse, pll, sws, wait_states, SystemCoreClock, ticks>>

PllOn ==
  /\ pc = "pll_on" /\ pc' = "pll_wait"
  /\ pll' = "starting"
  /\ remaining' = HSE_STARTUP_TIMEOUT
  /\ UNCHANGED <<gpio, hse, cfgr, sws, wait_states, SystemCoreClock, ticks>>

(* One write turns both off; the next one sets the latency.                *)
PllFailed ==
  /\ pc = "pll_failed" /\ pc' = "pll_undone"
  /\ hse' = "off" /\ pll' = "off"
  /\ UNCHANGED <<remaining, gpio, cfgr, sws, wait_states, SystemCoreClock, ticks>>

PllUndone ==
  /\ pc = "pll_undone" /\ pc' = "systick_hsi"
  /\ wait_states' = 0
  /\ SystemCoreClock' = HSI_CLOCK
  /\ UNCHANGED <<remaining, gpio, hse, pll, cfgr, sws, ticks>>

Switch ==
  /\ pc = "switch" /\ pc' = "switch_wait"
  /\ cfgr' = [cfgr EXCEPT !.SW = "PLL"]
  /\ remaining' = HSE_STARTUP_TIMEOUT
  /\ UNCHANGED <<gpio, hse, pll, sws, wait_states, SystemCoreClock, ticks>>

(* Undoes what the failure of the PLL undoes, too.                         *)
SwitchFailedAll ==
  /\ pc = "switch_failed" /\ pc' = "systick_hsi"
  /\ cfgr' = [cfgr EXCEPT !.SW = "HSI"]
  /\ hse' = "off" /\ pll' = "off" /\ wait_states' = 0
  /\ SystemCoreClock' = HSI_CLOCK
  /\ UNCHANGED <<remaining, gpio, sws, ticks>>

(* Leaves the request for the PLL as it is.                                *)
SwitchGivenUp ==
  /\ pc = "switch_failed" /\ pc' = "systick_hsi"
  /\ SystemCoreClock' = HSI_CLOCK
  /\ UNCHANGED <<remaining, gpio, clocks, ticks>>

(* Asks for the internal oscillator, and does not wait for it.  The clock  *)
(* may have changed after the last poll.                                   *)
SwitchFailed ==
  /\ pc = "switch_failed" /\ pc' = "systick_hsi"
  /\ cfgr' = [cfgr EXCEPT !.SW = "HSI"]
  /\ SystemCoreClock' = HSI_CLOCK
  /\ UNCHANGED <<remaining, gpio, hse, pll, sws, wait_states, ticks>>

Switched ==
  /\ pc = "switched" /\ pc' = "systick_pll"
  /\ SystemCoreClock' = PLL_CLOCK
  /\ UNCHANGED <<remaining, gpio, clocks, ticks>>

systick_init ==
  /\ pc \in {"systick_hsi", "systick_pll"} /\ pc' = "done"
  /\ ticks' = IF pc = "systick_pll" THEN PLL_CLOCK ELSE HSI_CLOCK
  /\ UNCHANGED <<remaining, gpio, clocks, SystemCoreClock>>

HseStarts ==
  /\ hse = "starting" /\ hse' = "ready"
  /\ UNCHANGED <<pc, remaining, gpio, pll, cfgr, sws, wait_states, SystemCoreClock, ticks>>

PllStarts ==
  /\ pll = "starting" /\ (cfgr.PLLSRC => hse = "ready") /\ pll' = "ready"
  /\ UNCHANGED <<pc, remaining, gpio, hse, cfgr, sws, wait_states, SystemCoreClock, ticks>>

(* The clock in use changes to one that is ready.                          *)
ClockChanges ==
  /\ sws # cfgr.SW /\ sws' = cfgr.SW
  /\ cfgr.SW = "PLL" => pll = "ready"
  /\ UNCHANGED <<pc, remaining, gpio, hse, pll, cfgr, wait_states, SystemCoreClock, ticks>>

board_init ==
  \/ SafeLevels \/ \E p \in Pins : gpio_configure_push_pull_output(p)
  \/ HseOn \/ HseWait \/ HseFailed \/ Flash \/ Configure
  \/ PllOn \/ PllWait \/ PllFailed \/ PllUndone
  \/ Switch \/ SwitchWait \/ SwitchFailed \/ Switched
  \/ systick_init

-----------------------------------------------------------------------------
(* SystemCoreClockUpdate of firmware/src/system.c.                         *)

ahb_prescaler_shift == [i \in 0 .. 15 |->
  IF i < 8 THEN 0 ELSE IF i < 12 THEN i - 7 ELSE i - 6]

SystemCoreClockUpdate ==
  LET multiplier == IF cfgr.PLLMULL + 2 > 16 THEN 16 ELSE cfgr.PLLMULL + 2
      system_clock ==
        CASE sws = "HSE" -> HSE_CLOCK
          [] sws = "PLL" -> PllInput(cfgr) * multiplier
          [] OTHER -> HSI_CLOCK
  IN system_clock \div 2 ^ ahb_prescaler_shift[cfgr.HPRE]

(* Properties.                                                             *)

(* The clock in use runs, and the flash and the buses bear it.             *)
ClockIsLegal ==
  /\ Running
  /\ Sysclk > 24 => wait_states >= 1
  /\ Sysclk \div cfgr.PPRE1 <= 36
  /\ Sysclk \div (cfgr.PPRE2 * cfgr.ADCPRE) <= 14
  /\ sws = "PLL" => cfgr.USBPRE /\ PllOutput(cfgr) = 48

(* The bits of the PLL are written only while it is off.                   *)
PllIsSetWhileOff ==
  [][<<cfgr'.PLLSRC, cfgr'.PLLXTPRE, cfgr'.PLLMULL>>
       # <<cfgr.PLLSRC, cfgr.PLLXTPRE, cfgr.PLLMULL>> => pll = "off"]_vars

(* The program comes to know the clock in use.                             *)
ClockIsKnown ==
  <>[](pc = "done" /\ Sysclk = SystemCoreClock
       /\ SystemCoreClockUpdate = SystemCoreClock /\ ticks = Sysclk)

===============================================================================
