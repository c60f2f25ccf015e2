------------------------------- MODULE MainLoop -------------------------------
(***************************************************************************)
(* The main loop of firmware/src/main.c, the millisecond counter of        *)
(* firmware/src/board.c that it reads, and the busy wait of                *)
(* usb_disconnect_pulse in firmware/src/usb_cdc.c.                         *)
(*                                                                         *)
(* Time is counted twice: by the program, in a counter that wraps, and by  *)
(* the variables ending in _age and by phase, which no code reads: the     *)
(* true milliseconds since a moment, kept to state the properties.  A pass *)
(* of the loop is three steps, and the SysTick interrupt comes between     *)
(* any two of them.                                                        *)
(***************************************************************************)
EXTENDS Integers

CONSTANTS
  MILLIS,            \* values of the counter: 2^32
  BLINK_INTERVAL,    \* blink_interval_ms on the external clock: 500
  BLINK_FALLBACK,    \* and on the internal oscillator: 100
  HEARTBEAT,         \* 1000
  USB_DISCONNECT_PULSE_MS,
  MaxPass            \* milliseconds from a reading of the counter to the next
                     \* one, not counting the wait for the interrupt that ends
                     \* wfi: the loop's own instructions and the USB handler

ASSUME IntervalsAssumption ==
  /\ MILLIS \in Nat /\ MaxPass \in Nat
  /\ BLINK_INTERVAL \in Nat /\ BLINK_FALLBACK \in Nat /\ HEARTBEAT \in Nat \ {0}
  /\ USB_DISCONNECT_PULSE_MS \in Nat
  /\ USB_DISCONNECT_PULSE_MS <= BLINK_INTERVAL
  /\ USB_DISCONNECT_PULSE_MS <= HEARTBEAT

(* The loop keeps up with its LED, and the counter does not wrap within an  *)
(* interval.                                                                *)
ASSUME PassAssumption ==
  /\ MaxPass < BLINK_INTERVAL /\ BLINK_INTERVAL + 2 * MaxPass + 1 < MILLIS
  /\ MaxPass < BLINK_FALLBACK /\ BLINK_FALLBACK + 2 * MaxPass + 1 < MILLIS
  /\ HEARTBEAT + 2 * MaxPass + 1 < MILLIS

VARIABLES
  milliseconds,
  pc,
  external_clock_ready, last_toggle_ms, last_usb_heartbeat_ms, led_on, now_ms,
  started_ms,        \* of usb_disconnect_pulse
  awake,             \* milliseconds that count for MaxPass
  now_age,           \* since now_ms was read
  toggle_age,        \* since the moment last_toggle_ms stands for
  heartbeat_age,     \* since the reading that made the last attempt, or the start
  phase              \* since the first reading, within a cycle of the LED

timers == <<external_clock_ready, last_toggle_ms, last_usb_heartbeat_ms, led_on>>
ages == <<awake, now_age, toggle_age, heartbeat_age, phase>>
vars == <<milliseconds, pc, timers, now_ms, started_ms, ages>>

blink_interval_ms ==
  IF external_clock_ready THEN BLINK_INTERVAL ELSE BLINK_FALLBACK

(* Sums and differences of type uint32_t.                                   *)
Sum32(a, b) == IF a + b < MILLIS THEN a + b ELSE a + b - MILLIS
Elapsed(now, then) == IF now >= then THEN now - then ELSE now - then + MILLIS

(* Compares with the sum instead of comparing the difference.               *)
DeadlineReached(now, then, interval) == now >= Sum32(then, interval)

Due(now, then, interval) == Elapsed(now, then) >= interval

-----------------------------------------------------------------------------

Init ==
  /\ external_clock_ready = FALSE
  /\ milliseconds = 0 /\ pc = "boot"
  /\ last_toggle_ms = 0 /\ last_usb_heartbeat_ms = 0 /\ led_on = FALSE
  /\ now_ms = 0 /\ started_ms = 0
  /\ awake = 0 /\ now_age = 0 /\ toggle_age = 0 /\ heartbeat_age = 0
  /\ phase = 0

(* Module Board has its steps, and module Firmware puts the two together.  *)
(* Its end starts the counter and enables interrupts.                      *)
board_init ==
  /\ pc = "boot" /\ pc' = "start"
  /\ external_clock_ready' \in BOOLEAN
  /\ UNCHANGED <<milliseconds, last_toggle_ms, last_usb_heartbeat_ms, led_on,
                 now_ms, started_ms, ages>>

ReadToggleStart ==
  /\ pc = "start" /\ pc' = "start_heartbeat"
  /\ last_toggle_ms' = milliseconds /\ toggle_age' = 0 /\ phase' = 0
  /\ UNCHANGED <<milliseconds, external_clock_ready, last_usb_heartbeat_ms, led_on,
                 now_ms, started_ms, awake, now_age, heartbeat_age>>

ReadHeartbeatStart ==
  /\ pc = "start_heartbeat"
  /\ pc' = IF external_clock_ready THEN "pulse_start" ELSE "read"
  /\ last_usb_heartbeat_ms' = milliseconds /\ heartbeat_age' = 0
  /\ UNCHANGED <<milliseconds, external_clock_ready, last_toggle_ms, led_on, now_ms,
                 started_ms, awake, now_age, toggle_age, phase>>

(* usb_disconnect_pulse has pulled D+ down.                                *)
PulseStart ==
  /\ pc = "pulse_start" /\ pc' = "pulse"
  /\ started_ms' = milliseconds
  /\ UNCHANGED <<milliseconds, timers, now_ms, ages>>

(* The wait is over; the rest of usb_cdc_init is in module UsbCdc.         *)
PulseEnd ==
  /\ pc = "pulse" /\ pc' = "read"
  /\ Due(milliseconds, started_ms, USB_DISCONNECT_PULSE_MS)
  /\ UNCHANGED <<milliseconds, timers, now_ms, started_ms, ages>>

ReadNow ==
  /\ pc = "read" /\ pc' = "led"
  /\ now_ms' = milliseconds /\ now_age' = 0 /\ awake' = 0
  /\ UNCHANGED <<milliseconds, timers, started_ms, toggle_age, heartbeat_age,
                 phase>>

(* Counts the interval from now, and not from when it was due.             *)
ToggleFromNow ==
  /\ pc = "led" /\ pc' = "usb"
  /\ IF Due(now_ms, last_toggle_ms, blink_interval_ms)
     THEN /\ last_toggle_ms' = now_ms
          /\ toggle_age' = now_age
          /\ led_on' = ~led_on
     ELSE UNCHANGED <<last_toggle_ms, toggle_age, led_on>>
  /\ UNCHANGED <<milliseconds, external_clock_ready, last_usb_heartbeat_ms, now_ms,
                 started_ms, awake, now_age, heartbeat_age, phase>>

Toggle ==
  /\ pc = "led" /\ pc' = "usb"
  /\ IF Due(now_ms, last_toggle_ms, blink_interval_ms)
     THEN /\ last_toggle_ms' = Sum32(last_toggle_ms, blink_interval_ms)
          /\ toggle_age' = toggle_age - blink_interval_ms
          /\ led_on' = ~led_on
     ELSE UNCHANGED <<last_toggle_ms, toggle_age, led_on>>
  /\ UNCHANGED <<milliseconds, external_clock_ready, last_usb_heartbeat_ms, now_ms,
                 started_ms, awake, now_age, heartbeat_age, phase>>

(* Counts the interval from when it was due, as the LED does.              *)
HeartbeatFromDue ==
  /\ pc = "usb" /\ pc' = "sleep"
  /\ IF external_clock_ready /\ Due(now_ms, last_usb_heartbeat_ms, HEARTBEAT)
     THEN /\ last_usb_heartbeat_ms' = Sum32(last_usb_heartbeat_ms, HEARTBEAT)
          /\ heartbeat_age' = now_age
     ELSE UNCHANGED <<last_usb_heartbeat_ms, heartbeat_age>>
  /\ UNCHANGED <<milliseconds, external_clock_ready, last_toggle_ms, led_on, now_ms,
                 started_ms, awake, now_age, toggle_age, phase>>

(* The timer starts again whatever usb_cdc_connected and usb_cdc_try_write *)
(* say: the attempt is the same for a port that is closed or busy.         *)
Heartbeat ==
  /\ pc = "usb" /\ pc' = "sleep"
  /\ IF external_clock_ready /\ Due(now_ms, last_usb_heartbeat_ms, HEARTBEAT)
     THEN last_usb_heartbeat_ms' = now_ms /\ heartbeat_age' = now_age
     ELSE UNCHANGED <<last_usb_heartbeat_ms, heartbeat_age>>
  /\ UNCHANGED <<milliseconds, external_clock_ready, last_toggle_ms, led_on, now_ms,
                 started_ms, awake, now_age, toggle_age, phase>>

(* A USB interrupt ends wfi.                                               *)
Wake ==
  /\ pc = "sleep" /\ external_clock_ready /\ pc' = "read"
  /\ UNCHANGED <<milliseconds, timers, now_ms, started_ms, ages>>

Waiting ==
  pc = "sleep" \/
  (pc = "pulse" /\ ~Due(milliseconds, started_ms, USB_DISCONNECT_PULSE_MS))

(* A millisecond passes.  The interrupt ends wfi, too; one that comes      *)
(* between the reading of the counter and wfi does not.                    *)
SysTick_Handler ==
  /\ pc # "boot"
  /\ Waiting \/ awake < MaxPass
  /\ milliseconds' = Sum32(milliseconds, 1)
  /\ awake' = IF Waiting THEN awake ELSE awake + 1
  /\ pc' = IF pc = "sleep" THEN "read" ELSE pc
  /\ now_age' = now_age + 1
  /\ toggle_age' = toggle_age + 1
  /\ heartbeat_age' = IF external_clock_ready THEN heartbeat_age + 1 ELSE 0
  /\ phase' = IF phase + 1 = 2 * blink_interval_ms THEN 0 ELSE phase + 1
  /\ UNCHANGED <<timers, now_ms, started_ms>>

Next ==
  \/ board_init
  \/ ReadToggleStart \/ ReadHeartbeatStart \/ PulseStart \/ PulseEnd
  \/ ReadNow \/ Toggle \/ Heartbeat \/ Wake
  \/ SysTick_Handler

Spec == Init /\ [][Next]_vars

-----------------------------------------------------------------------------
(* Properties.                                                             *)

TypeOK ==
  /\ milliseconds \in 0 .. MILLIS - 1 /\ now_ms \in 0 .. MILLIS - 1
  /\ last_toggle_ms \in 0 .. MILLIS - 1 /\ last_usb_heartbeat_ms \in 0 .. MILLIS - 1
  /\ started_ms \in 0 .. MILLIS - 1
  /\ pc \in {"boot", "start", "start_heartbeat", "pulse_start",
             "pulse", "read", "led", "usb", "sleep"}
  /\ external_clock_ready \in BOOLEAN /\ led_on \in BOOLEAN
  /\ now_age \in Nat /\ toggle_age \in Nat /\ heartbeat_age \in Nat /\ phase \in Nat
  /\ awake \in 0 .. MaxPass

(* Each attempt to send the heartbeat comes at least its interval after the *)
(* one before, in true time, also when the counter wraps in between, and it *)
(* comes no later than a pass of the loop after that.                       *)
HeartbeatOnTime ==
  [][pc = "usb" /\ heartbeat_age' < heartbeat_age =>
       heartbeat_age - now_age \in HEARTBEAT .. HEARTBEAT + MaxPass]_vars

(* No attempt is missed: on the external clock the last attempt, or the     *)
(* start, is never longer ago.                                              *)
HeartbeatRecent == heartbeat_age <= HEARTBEAT + 2 * MaxPass + 1

(* The LED changes at the multiples of its interval since the first reading *)
(* of the counter, late by a pass at most, and does not drift however late  *)
(* the passes come.                                                         *)
LedFollowsTime ==
  /\ toggle_age <= blink_interval_ms + 2 * MaxPass + 1
  /\ toggle_age + (IF led_on THEN blink_interval_ms ELSE 0) - phase
       \in {0, 2 * blink_interval_ms}

===============================================================================
