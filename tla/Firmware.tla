-------------------------------- MODULE Firmware -------------------------------
(***************************************************************************)
(* main of firmware/src/main.c from the reset on: the start of the board   *)
(* (module Board), whose outcome decides how the main loop runs and         *)
(* whether there is a USB at all (module MainLoop), and the hardware of    *)
(* the clock, which goes on changing behind the running loop.               *)
(***************************************************************************)
EXTENDS MainLoop

CONSTANT HSE_STARTUP_TIMEOUT

VARIABLES
  board_pc,          \* pc of module Board
  remaining, level, outputs, hse, pll, cfgr, sws, wait_states, SystemCoreClock, ticks

ASSUME StartupTimeoutAssumption == HSE_STARTUP_TIMEOUT \in Nat \ {0}

B == INSTANCE Board WITH pc <- board_pc

boardvars ==
  <<board_pc, remaining, level, outputs, hse, pll, cfgr, sws, wait_states,
    SystemCoreClock, ticks>>
firmwarevars == <<vars, boardvars>>

FirmwareInit == Init /\ B!Init

(* Calls main without waiting for what clock_init says.                    *)
board_step_regardless ==
  /\ B!board_init
  /\ IF board_pc' = "done"
     THEN board_init /\ external_clock_ready' = TRUE
     ELSE UNCHANGED vars

(* clock_init returns true only through the end of its body.               *)
board_step ==
  /\ B!board_init
  /\ IF board_pc' = "done"
     THEN board_init /\ external_clock_ready' = (board_pc = "systick_pll")
     ELSE UNCHANGED vars

(* The LED is on when its pin is low.                                      *)
board_led_set(on) == level' = [level EXCEPT !["LED_HEARTBEAT"] = ~on]

toggle_led ==
  /\ Toggle
  /\ IF led_on' = led_on THEN UNCHANGED level ELSE board_led_set(led_on')
  /\ UNCHANGED <<board_pc, remaining, outputs, hse, pll, cfgr, sws, wait_states,
                 SystemCoreClock, ticks>>

loop_step ==
  /\ \/ ReadToggleStart \/ ReadHeartbeatStart \/ PulseStart \/ PulseEnd
     \/ ReadNow \/ Heartbeat \/ Wake
     \/ SysTick_Handler
  /\ UNCHANGED boardvars

clock_hardware ==
  /\ B!HseStarts \/ B!PllStarts \/ B!ClockChanges
  /\ UNCHANGED vars

FirmwareNext == board_step \/ toggle_led \/ loop_step \/ clock_hardware

(* The program runs, and the clock follows a request that stays.           *)
FirmwareSpec ==
  /\ FirmwareInit /\ [][FirmwareNext]_firmwarevars
  /\ WF_firmwarevars(board_step)
  /\ WF_firmwarevars(B!ClockChanges /\ UNCHANGED vars)

-----------------------------------------------------------------------------
(* Properties.                                                             *)

(* From the first instruction on, whatever the LED does and however the     *)
(* start has failed, no motor driver is awake and the LED is lit only when  *)
(* the program has it on: DESIGN.md asks for both drivers asleep during     *)
(* early boot, and nothing wakes them later.                                *)
PinsAreSafe ==
  \A p \in outputs : level[p] <=> p = "LED_HEARTBEAT" /\ ~led_on

(* However late the oscillator, the PLL and the switch come, and whichever  *)
(* wait has been given up, also when they come while the loop already runs, *)
(* the clock in use runs and the flash and the buses bear it: one wait      *)
(* state above 24 MHz, 36 MHz on APB1, 14 MHz for the ADC, 48 MHz for the   *)
(* USB.                                                                     *)
ClockIsLegal == B!ClockIsLegal

(* The bits of the PLL are written only while it is off.                   *)
PllIsSetWhileOff == B!PllIsSetWhileOff

(* The USB is started, and the long intervals used, only while the core     *)
(* runs from the PLL: the peripheral has its 48 MHz, and a millisecond of   *)
(* the counter is one of the clock in use.                                  *)
UsbHasItsClock ==
  external_clock_ready =>
    /\ B!Sysclk = B!PLL_CLOCK /\ cfgr.USBPRE
    /\ SystemCoreClock = B!Sysclk /\ ticks = B!Sysclk

(* After the start the program's idea of the clock, what                   *)
(* SystemCoreClockUpdate would make of the registers, and the length of a  *)
(* millisecond come to agree with the clock in use, and stay so.           *)
ClockIsKnown == B!ClockIsKnown

===============================================================================
