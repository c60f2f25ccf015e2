---------------------------- MODULE Firmware_proofs ----------------------------
(***************************************************************************)
(* That the timers of module MainLoop are right for every width of the     *)
(* counter, every interval and every length of a pass that satisfy its     *)
(* assumptions; that the firmware keeps its pins safe and its clock legal  *)
(* from the reset on, for every timeout of the start; and that what is     *)
(* proved of the loop holds of the firmware, board and all.                *)
(*                                                                         *)
(* The argument about the timers: a difference of two readings of the      *)
(* wrapping counter is the true time between them as long as that time is  *)
(* less than a whole turn of the counter (Timed), and the timers are reset *)
(* before that happens because no pass is longer than MaxPass (InTime).    *)
(*                                                                         *)
(* About the clock: the hardware can run late at every step, so            *)
(* the invariant says for each place of the start what may be on its way    *)
(* there (ClockInv).  The PLL can be in use only after the switch has been  *)
(* asked for, and nothing that it needs is turned off after that.           *)
(***************************************************************************)
EXTENDS Firmware, TLAPS

-----------------------------------------------------------------------------
(* The timers of the main loop.                                            *)

Running == pc \in {"led", "usb", "sleep"}
Starting == pc \in {"boot", "start", "start_heartbeat", "pulse_start"}

(* What the program computes from its readings is the true time.           *)
HeartbeatTimed ==
  external_clock_ready => Elapsed(milliseconds, last_usb_heartbeat_ms) = heartbeat_age
ToggleTimed == Elapsed(milliseconds, last_toggle_ms) = toggle_age
NowTimed ==
  Running => Elapsed(milliseconds, now_ms) = now_age /\ now_age = awake
PulseTimed ==
  pc = "pulse" => Elapsed(milliseconds, started_ms) <= USB_DISCONNECT_PULSE_MS + awake

(* A timer that is to go off after an interval and has been running for    *)
(* age milliseconds is never more than a pass late.                        *)
InTime(age, interval) ==
  /\ Starting => age <= awake
  /\ pc = "pulse" => age <= Elapsed(milliseconds, started_ms) + awake
  /\ pc = "pulse" => age <= USB_DISCONNECT_PULSE_MS + awake
  /\ pc = "read" => age <= interval + awake
  /\ Running => now_age <= age /\ age <= now_age + interval + MaxPass

HeartbeatInTime ==
  /\ external_clock_ready => InTime(heartbeat_age, HEARTBEAT)
  /\ external_clock_ready /\ pc = "sleep" => heartbeat_age < now_age + HEARTBEAT
  /\ ~external_clock_ready => heartbeat_age = 0
ToggleInTime ==
  /\ InTime(toggle_age, blink_interval_ms)
  /\ pc \in {"usb", "sleep"} => toggle_age < now_age + blink_interval_ms

LedTime == IF led_on THEN blink_interval_ms ELSE 0

LedInPhase ==
  /\ Starting => ~led_on
  /\ phase < 2 * blink_interval_ms
  /\ toggle_age + LedTime - phase \in {0, 2 * blink_interval_ms}

OnlyWithUsb == pc \in {"pulse_start", "pulse"} => external_clock_ready

Booting ==
  pc = "boot" =>
    /\ milliseconds = 0 /\ last_toggle_ms = 0 /\ last_usb_heartbeat_ms = 0
    /\ toggle_age = 0 /\ heartbeat_age = 0 /\ phase = 0
    /\ ~led_on /\ ~external_clock_ready

LoopInv ==
  /\ TypeOK /\ Booting
  /\ HeartbeatTimed /\ ToggleTimed /\ NowTimed /\ PulseTimed
  /\ HeartbeatInTime /\ ToggleInTime
  /\ LedInPhase /\ OnlyWithUsb

-----------------------------------------------------------------------------
(* The arithmetic of the counter.                                          *)

Reading == 0 .. MILLIS - 1

(* A sum stays within the counter.                                         *)
LEMMA SumIsReading ==
  ASSUME NEW a \in Reading, NEW b \in Nat, b < MILLIS
  PROVE  Sum32(a, b) \in Reading
BY IntervalsAssumption DEF Reading, Sum32

(* A difference is a number of milliseconds less than a turn.              *)
LEMMA ElapsedIsNat ==
  ASSUME NEW a \in Reading, NEW b \in Reading
  PROVE  Elapsed(a, b) \in Nat /\ Elapsed(a, b) < MILLIS /\ Elapsed(a, a) = 0
BY IntervalsAssumption DEF Reading, Elapsed

(* A tick makes a difference greater by one, unless it completes a turn.   *)
LEMMA ElapsedTick ==
  ASSUME NEW now \in Reading, NEW then \in Reading, Elapsed(now, then) + 1 < MILLIS
  PROVE  Elapsed(Sum32(now, 1), then) = Elapsed(now, then) + 1
BY IntervalsAssumption DEF Reading, Elapsed, Sum32

(* Of two moments before the present the time between them is known.       *)
LEMMA ElapsedBetween ==
  ASSUME NEW now \in Reading, NEW later \in Reading, NEW earlier \in Reading,
         Elapsed(now, later) <= Elapsed(now, earlier)
  PROVE  Elapsed(later, earlier) = Elapsed(now, earlier) - Elapsed(now, later)
BY IntervalsAssumption DEF Reading, Elapsed

(* A moment put forward by no more than has passed.                        *)
LEMMA ElapsedAdvance ==
  ASSUME NEW now \in Reading, NEW then \in Reading, NEW d \in Nat,
         d <= Elapsed(now, then)
  PROVE  Elapsed(now, Sum32(then, d)) = Elapsed(now, then) - d
BY IntervalsAssumption DEF Reading, Elapsed, Sum32

-----------------------------------------------------------------------------

LEMMA Intervals ==
  ASSUME TypeOK
  PROVE  /\ blink_interval_ms \in Nat /\ MaxPass < blink_interval_ms
         /\ blink_interval_ms + 2 * MaxPass + 1 < MILLIS
         /\ external_clock_ready => USB_DISCONNECT_PULSE_MS <= blink_interval_ms
         /\ HEARTBEAT + 2 * MaxPass + 1 < MILLIS
         /\ USB_DISCONNECT_PULSE_MS <= HEARTBEAT
BY IntervalsAssumption, PassAssumption DEF TypeOK, blink_interval_ms

LEMMA LoopInvInit ==
  ASSUME Init
  PROVE  LoopInv
<1>1. led_on \in BOOLEAN /\ external_clock_ready \in BOOLEAN
  BY Zenon DEF Init
<1>a. ~led_on /\ ~external_clock_ready
  BY Zenon DEF Init
<1>2. TypeOK
  BY <1>1, IntervalsAssumption, PassAssumption DEF Init, TypeOK
<1>3. QED
  BY <1>a, <1>2, Intervals, IntervalsAssumption
     DEF Init, LoopInv, Booting, HeartbeatTimed, ToggleTimed, NowTimed, PulseTimed,
         HeartbeatInTime, ToggleInTime, InTime, LedInPhase, LedTime, OnlyWithUsb,
         Running, Starting, Elapsed

(* Every step of the program and every tick keeps the invariant.           *)
LEMMA LoopInvNext ==
  ASSUME LoopInv, [Next]_vars
  PROVE  LoopInv'
<1> USE IntervalsAssumption DEF Reading
<1>1. TypeOK
  BY DEF LoopInv, Booting
<1>2. /\ Elapsed(milliseconds, milliseconds) = 0
      /\ Elapsed(milliseconds, last_toggle_ms) \in Nat
      /\ Elapsed(milliseconds, last_usb_heartbeat_ms) \in Nat
      /\ Elapsed(milliseconds, started_ms) \in Nat
      /\ Elapsed(milliseconds, now_ms) \in Nat
  BY <1>1, ElapsedIsNat DEF TypeOK
<1>3. /\ blink_interval_ms \in Nat /\ MaxPass < blink_interval_ms
      /\ blink_interval_ms + 2 * MaxPass + 1 < MILLIS
      /\ HEARTBEAT + 2 * MaxPass + 1 < MILLIS
      /\ external_clock_ready => USB_DISCONNECT_PULSE_MS <= blink_interval_ms
      /\ external_clock_ready' = external_clock_ready =>
           blink_interval_ms' = blink_interval_ms
  BY <1>1, Intervals DEF blink_interval_ms
<1>4. CASE ReadToggleStart
  <2>1. TypeOK'
    BY <1>1, <1>4 DEF TypeOK, ReadToggleStart
  <2>2. QED
    BY <1>1, <1>2, <1>3, <1>4, <2>1
       DEF TypeOK, LoopInv, Booting, ReadToggleStart, HeartbeatTimed, ToggleTimed, NowTimed,
           PulseTimed, HeartbeatInTime, ToggleInTime, InTime, LedInPhase, LedTime,
           OnlyWithUsb, Running, Starting
<1>5. CASE ReadHeartbeatStart
  <2>1. TypeOK'
    BY <1>1, <1>5 DEF TypeOK, ReadHeartbeatStart
  <2>2. HeartbeatTimed' /\ HeartbeatInTime'
    BY <1>1, <1>2, <1>3, <1>5, <2>1
       DEF TypeOK, LoopInv, Booting, ReadHeartbeatStart, HeartbeatTimed, HeartbeatInTime, InTime,
           Running, Starting
  <2>3. ToggleTimed' /\ ToggleInTime' /\ LedInPhase'
    BY <1>1, <1>2, <1>3, <1>5, <2>1
       DEF TypeOK, LoopInv, Booting, ReadHeartbeatStart, ToggleTimed, ToggleInTime, InTime,
           LedInPhase, LedTime, Running, Starting
  <2>4. NowTimed' /\ PulseTimed' /\ OnlyWithUsb'
    BY <1>1, <1>5
       DEF LoopInv, ReadHeartbeatStart, NowTimed, PulseTimed, OnlyWithUsb, Running
  <2>5. QED
    BY <1>5, <2>1, <2>2, <2>3, <2>4 DEF LoopInv, Booting, ReadHeartbeatStart
<1>6. CASE PulseStart
  <2>1. TypeOK'
    BY <1>1, <1>6 DEF TypeOK, PulseStart, timers, ages
  <2>2. QED
    BY <1>1, <1>2, <1>3, <1>6, <2>1
       DEF TypeOK, LoopInv, Booting, PulseStart, timers, ages, HeartbeatTimed, ToggleTimed,
           NowTimed, PulseTimed, HeartbeatInTime, ToggleInTime, InTime, LedInPhase, LedTime,
           OnlyWithUsb, Running, Starting
<1>7. CASE PulseEnd
  <2>1. TypeOK'
    BY <1>1, <1>7 DEF TypeOK, PulseEnd, timers, ages
  <2>2. QED
    BY <1>1, <1>2, <1>3, <1>7, <2>1
       DEF TypeOK, LoopInv, Booting, PulseEnd, timers, ages, HeartbeatTimed, ToggleTimed,
           NowTimed, PulseTimed, HeartbeatInTime, ToggleInTime, InTime, LedInPhase, LedTime,
           OnlyWithUsb, Running, Starting
<1>8. CASE ReadNow
  <2>1. TypeOK'
    BY <1>1, <1>8 DEF TypeOK, ReadNow, timers
  <2>2. QED
    BY <1>1, <1>2, <1>3, <1>8, <2>1
       DEF TypeOK, LoopInv, Booting, ReadNow, timers, HeartbeatTimed, ToggleTimed,
           NowTimed, PulseTimed, HeartbeatInTime, ToggleInTime, InTime, LedInPhase, LedTime,
           OnlyWithUsb, Running, Starting
<1>9. CASE Toggle
  <2>1. Elapsed(now_ms, last_toggle_ms) = toggle_age - now_age
    BY <1>1, <1>9, ElapsedBetween
       DEF TypeOK, LoopInv, Booting, Toggle, ToggleTimed, NowTimed, ToggleInTime, InTime, Running
  <2>2. CASE Due(now_ms, last_toggle_ms, blink_interval_ms)
    <3>1. Elapsed(milliseconds, last_toggle_ms') = toggle_age'
      BY <1>1, <1>3, <1>9, <2>1, <2>2, ElapsedAdvance
         DEF TypeOK, LoopInv, Booting, Toggle, ToggleTimed, Due
    <3>2. TypeOK'
      BY <1>1, <1>3, <1>9, <2>1, <2>2, SumIsReading DEF TypeOK, Toggle, Due
    <3>3. LedInPhase'
      <4>1. /\ blink_interval_ms <= toggle_age
            /\ toggle_age' = toggle_age - blink_interval_ms /\ phase' = phase
            /\ blink_interval_ms' = blink_interval_ms
        BY <1>1, <1>3, <1>9, <2>1, <2>2 DEF TypeOK, Toggle, Due
      <4>2. led_on' = ~led_on
        BY <1>9, <2>2 DEF Toggle
      <4>3. LedTime \in {0, blink_interval_ms} /\ LedTime' = blink_interval_ms - LedTime
        <5>1. CASE led_on
          <6>1. ~led_on'
            BY <4>2, <5>1, Zenon
          <6>2. QED
            BY <1>3, <4>1, <5>1, <6>1 DEF LedTime
        <5>2. CASE ~led_on
          <6>1. led_on'
            BY <4>2, <5>2, Zenon
          <6>2. QED
            BY <1>3, <4>1, <5>2, <6>1 DEF LedTime
        <5>3. QED
          BY <5>1, <5>2
      <4>4. pc' = "usb"
        BY <1>9 DEF Toggle
      <4>5. QED
        BY <1>1, <1>3, <4>1, <4>3, <4>4 DEF TypeOK, LoopInv, Booting, LedInPhase, Starting
    <3>4. QED
      BY <1>1, <1>2, <1>3, <1>9, <2>1, <2>2, <3>1, <3>2, <3>3
         DEF TypeOK, LoopInv, Booting, Toggle, Due, HeartbeatTimed, ToggleTimed,
             NowTimed, PulseTimed, HeartbeatInTime, ToggleInTime, InTime,
             OnlyWithUsb, Running, Starting
  <2>3. CASE ~Due(now_ms, last_toggle_ms, blink_interval_ms)
    <3>1. TypeOK'
      BY <1>1, <1>9, <2>3 DEF TypeOK, Toggle
    <3>2. QED
      BY <1>1, <1>2, <1>3, <1>9, <2>1, <2>3, <3>1
         DEF TypeOK, LoopInv, Booting, Toggle, Due, HeartbeatTimed, ToggleTimed, LedInPhase, LedTime,
             NowTimed, PulseTimed, HeartbeatInTime, ToggleInTime, InTime,
             OnlyWithUsb, Running, Starting
  <2>4. QED
    BY <2>2, <2>3
<1>10. CASE Heartbeat
  <2>1. external_clock_ready =>
          Elapsed(now_ms, last_usb_heartbeat_ms) = heartbeat_age - now_age
    BY <1>1, <1>10, ElapsedBetween
       DEF TypeOK, LoopInv, Booting, Heartbeat, HeartbeatTimed, NowTimed, HeartbeatInTime, InTime,
           Running
  <2>2. TypeOK'
    BY <1>1, <1>10 DEF TypeOK, Heartbeat
  <2>3. HeartbeatTimed' /\ HeartbeatInTime'
    <3>1. CASE ~external_clock_ready
      BY <1>1, <1>10, <3>1 DEF LoopInv, Heartbeat, HeartbeatTimed, HeartbeatInTime
    <3>2. CASE external_clock_ready /\ Due(now_ms, last_usb_heartbeat_ms, HEARTBEAT)
      BY <1>1, <1>2, <1>3, <1>10, <2>2, <3>2
         DEF TypeOK, LoopInv, Booting, Heartbeat, HeartbeatTimed, NowTimed, HeartbeatInTime,
             InTime, Running, Starting
    <3>3. CASE external_clock_ready /\ ~Due(now_ms, last_usb_heartbeat_ms, HEARTBEAT)
      BY <1>1, <1>2, <1>3, <1>10, <2>1, <2>2, <3>3
         DEF TypeOK, LoopInv, Booting, Heartbeat, Due, HeartbeatTimed, HeartbeatInTime,
             InTime, Running, Starting
    <3>4. QED
      BY <3>1, <3>2, <3>3
  <2>4. ToggleTimed' /\ ToggleInTime' /\ LedInPhase'
    BY <1>1, <1>2, <1>3, <1>10, <2>2
       DEF TypeOK, LoopInv, Booting, Heartbeat, ToggleTimed, ToggleInTime, InTime, LedInPhase,
           LedTime, Running, Starting
  <2>5. NowTimed' /\ PulseTimed' /\ OnlyWithUsb'
    BY <1>1, <1>10
       DEF LoopInv, Heartbeat, NowTimed, PulseTimed, OnlyWithUsb, Running
  <2>6. QED
    BY <1>10, <2>2, <2>3, <2>4, <2>5 DEF LoopInv, Booting, Heartbeat
<1>11. CASE Wake
  <2>1. TypeOK'
    BY <1>1, <1>11 DEF TypeOK, Wake, timers, ages
  <2>2. QED
    BY <1>1, <1>2, <1>3, <1>11, <2>1
       DEF TypeOK, LoopInv, Booting, Wake, timers, ages, HeartbeatTimed, ToggleTimed,
           NowTimed, PulseTimed, HeartbeatInTime, ToggleInTime, InTime, LedInPhase, LedTime,
           OnlyWithUsb, Running, Starting
<1>12. CASE SysTick_Handler
  <2>1. TypeOK'
    <3>1. milliseconds' \in Reading
      BY <1>1, <1>3, <1>12, SumIsReading DEF TypeOK, SysTick_Handler
    <3>2. awake' \in 0 .. MaxPass
      BY <1>1, <1>12 DEF TypeOK, SysTick_Handler
    <3>3. pc' \in {"boot", "start", "start_heartbeat", "pulse_start",
                   "pulse", "read", "led", "usb", "sleep"}
      BY <1>1, <1>12 DEF TypeOK, SysTick_Handler
    <3>4. QED
      BY <1>1, <1>12, <3>1, <3>2, <3>3 DEF TypeOK, SysTick_Handler, timers
  <2>2. /\ external_clock_ready => Elapsed(milliseconds', last_usb_heartbeat_ms) =
             Elapsed(milliseconds, last_usb_heartbeat_ms) + 1
        /\ Elapsed(milliseconds', last_toggle_ms) = Elapsed(milliseconds, last_toggle_ms) + 1
        /\ Running => Elapsed(milliseconds', now_ms) = Elapsed(milliseconds, now_ms) + 1
        /\ pc = "pulse" =>
             Elapsed(milliseconds', started_ms) = Elapsed(milliseconds, started_ms) + 1
    <3>1. /\ external_clock_ready =>
               Elapsed(milliseconds, last_usb_heartbeat_ms) + 1 < MILLIS
          /\ Elapsed(milliseconds, last_toggle_ms) + 1 < MILLIS
          /\ Running => Elapsed(milliseconds, now_ms) + 1 < MILLIS
          /\ pc = "pulse" => Elapsed(milliseconds, started_ms) + 1 < MILLIS
      BY <1>1, <1>2, <1>3
         DEF TypeOK, LoopInv, Booting, HeartbeatTimed, ToggleTimed, NowTimed, PulseTimed,
             HeartbeatInTime, ToggleInTime, InTime, OnlyWithUsb, Running, Starting
    <3>2. milliseconds' = Sum32(milliseconds, 1)
      BY <1>12 DEF SysTick_Handler
    <3>3. QED
      BY <1>1, <3>1, <3>2, ElapsedTick DEF TypeOK
  <2>3. QED
    BY <1>1, <1>2, <1>3, <1>12, <2>1, <2>2
       DEF TypeOK, LoopInv, Booting, SysTick_Handler, Waiting, Due, timers, HeartbeatTimed,
           ToggleTimed, NowTimed, PulseTimed, HeartbeatInTime, ToggleInTime, InTime,
           LedInPhase, LedTime, OnlyWithUsb, Running, Starting
<1>13. CASE UNCHANGED vars
  BY <1>1, <1>2, <1>3, <1>13
     DEF TypeOK, LoopInv, Booting, vars, timers, ages, HeartbeatTimed, ToggleTimed, NowTimed,
         PulseTimed, HeartbeatInTime, ToggleInTime, InTime, LedInPhase, LedTime, OnlyWithUsb,
         Running, Starting
<1>15. CASE board_init
  <2>1. TypeOK'
    BY <1>1, <1>15 DEF TypeOK, board_init, ages
  <2>2. blink_interval_ms' \in Nat /\ MaxPass < blink_interval_ms'
    BY <2>1, IntervalsAssumption, PassAssumption DEF TypeOK, blink_interval_ms
  <2>3. ~led_on'
    BY <1>15, Zenon DEF LoopInv, Booting, board_init
  <2>4. /\ pc' = "start" /\ milliseconds' = 0
        /\ last_toggle_ms' = 0 /\ last_usb_heartbeat_ms' = 0
        /\ toggle_age' = 0 /\ heartbeat_age' = 0 /\ phase' = 0
    BY <1>15 DEF LoopInv, Booting, board_init, ages
  <2>5. HeartbeatTimed' /\ ToggleTimed' /\ NowTimed' /\ PulseTimed'
    BY <2>4 DEF HeartbeatTimed, ToggleTimed, NowTimed, PulseTimed, Elapsed, Running
  <2>6. HeartbeatInTime' /\ ToggleInTime'
    BY <2>1, <2>4
       DEF TypeOK, HeartbeatInTime, ToggleInTime, InTime, Running, Starting
  <2>7. LedInPhase'
    <3>1. LedTime' = 0
      BY <2>3, Zenon DEF LedTime
    <3>2. /\ phase' < 2 * blink_interval_ms'
          /\ toggle_age' + LedTime' - phase' \in {0, 2 * blink_interval_ms'}
      <4>1. \A b \in Nat : MaxPass < b => 0 < 2 * b /\ 0 + 0 - 0 \in {0, 2 * b}
        BY IntervalsAssumption
      <4>2. QED
        BY <2>2, <2>4, <3>1, <4>1
    <3>3. QED
      BY <2>3, <3>2, Zenon DEF LedInPhase
  <2>9. OnlyWithUsb' /\ Booting'
    BY <2>4 DEF OnlyWithUsb, Booting
  <2>8. QED
    BY <2>1, <2>5, <2>6, <2>7, <2>9 DEF LoopInv
<1>16. QED
  BY <1>15, <1>4, <1>5, <1>6, <1>7, <1>8, <1>9, <1>10, <1>11, <1>12, <1>13 DEF Next

-----------------------------------------------------------------------------
(* The theorems.                                                           *)

LEMMA LoopInvariance == Spec => []LoopInv
<1>1. Init => LoopInv
  BY LoopInvInit
<1>2. LoopInv /\ [Next]_vars => LoopInv'
  BY LoopInvNext
<1>3. QED
  BY <1>1, <1>2, PTL DEF Spec

(* Every variable of the loop keeps to its type: no sum leaves the range of *)
(* the counter.                                                             *)
THEOREM TypeCorrect == Spec => []TypeOK
<1>1. LoopInv => TypeOK
  BY DEF LoopInv
<1>2. QED
  BY <1>1, LoopInvariance, PTL

(* The heartbeat timer goes off within a pass of its interval, for ever.   *)
THEOREM HeartbeatNeverLate == Spec => []HeartbeatRecent
<1>1. LoopInv => HeartbeatRecent
  <2>1. SUFFICES ASSUME LoopInv PROVE HeartbeatRecent
    OBVIOUS
  <2>2. CASE external_clock_ready
    BY <2>1, <2>2, IntervalsAssumption
       DEF LoopInv, TypeOK, HeartbeatInTime, InTime, Running, Starting, NowTimed,
           HeartbeatRecent
  <2>3. CASE ~external_clock_ready
    BY <2>1, <2>3, IntervalsAssumption DEF LoopInv, TypeOK, HeartbeatInTime, HeartbeatRecent
  <2>4. QED
    BY <2>2, <2>3
<1>2. QED
  BY <1>1, LoopInvariance, PTL

(* The LED keeps to the multiples of its interval, for ever and without     *)
(* drift, on either clock.                                                  *)
THEOREM LedOnTime == Spec => []LedFollowsTime
<1>1. LoopInv => LedFollowsTime
  <2>1. SUFFICES ASSUME LoopInv PROVE LedFollowsTime
    OBVIOUS
  <2>2. toggle_age <= blink_interval_ms + 2 * MaxPass + 1
    <3>1. external_clock_ready => USB_DISCONNECT_PULSE_MS <= blink_interval_ms
      BY <2>1, Intervals DEF LoopInv
    <3>2. blink_interval_ms \in Nat
      BY <2>1, Intervals DEF LoopInv
    <3>3. QED
      BY <2>1, <3>1, <3>2, IntervalsAssumption
         DEF LoopInv, TypeOK, ToggleInTime, InTime, NowTimed, Running, Starting, OnlyWithUsb
  <2>3. QED
    BY <2>1, <2>2 DEF LoopInv, LedInPhase, LedTime, LedFollowsTime
<1>2. QED
  BY <1>1, LoopInvariance, PTL

(* Two attempts are an interval apart, and at most a pass more, whatever    *)
(* the values of the counter at the two.                                    *)
THEOREM HeartbeatSpacing == Spec => HeartbeatOnTime
<1>1. ASSUME LoopInv, [Next]_vars, pc = "usb", heartbeat_age' < heartbeat_age
      PROVE  heartbeat_age - now_age \in HEARTBEAT .. HEARTBEAT + MaxPass
  <2>1. TypeOK
    BY <1>1 DEF LoopInv
  <2>2. Heartbeat
    <3>1. CASE SysTick_Handler
      BY <1>1, <2>1, <3>1 DEF LoopInv, HeartbeatInTime, SysTick_Handler, TypeOK
    <3>2. CASE UNCHANGED vars
      BY <1>1, <2>1, <3>2 DEF vars, ages, TypeOK
    <3>3. QED
      BY <1>1, <3>1, <3>2
         DEF Next, board_init, ages, ReadToggleStart, ReadHeartbeatStart, PulseStart, PulseEnd, ReadNow,
             Toggle, Wake
  <2>3. external_clock_ready /\ Due(now_ms, last_usb_heartbeat_ms, HEARTBEAT)
    BY <1>1, <2>1, <2>2 DEF Heartbeat, TypeOK
  <2>4. Elapsed(now_ms, last_usb_heartbeat_ms) = heartbeat_age - now_age
    BY <1>1, <2>1, <2>3, ElapsedBetween
       DEF LoopInv, TypeOK, Reading, HeartbeatTimed, NowTimed, HeartbeatInTime, InTime,
           Running
  <2>5. QED
    BY <1>1, <2>1, <2>3, <2>4, IntervalsAssumption
       DEF LoopInv, TypeOK, Due, HeartbeatInTime, InTime, Running
<1>2. LoopInv /\ [Next]_vars =>
        [pc = "usb" /\ heartbeat_age' < heartbeat_age =>
           heartbeat_age - now_age \in HEARTBEAT .. HEARTBEAT + MaxPass]_vars
  BY <1>1
<1>3. QED
  BY <1>2, LoopInvariance, PTL DEF Spec, HeartbeatOnTime

-----------------------------------------------------------------------------
(* The board and its clock.                                                *)

(* The values CFGR has: before clock_init sets it, and after.               *)
ResetCfgr ==
  [SW : {"HSI"}, HPRE : {0}, PPRE1 : {1}, PPRE2 : {1}, ADCPRE : {2},
   PLLSRC : {FALSE}, PLLXTPRE : {FALSE}, PLLMULL : {0}, USBPRE : {FALSE}]
PllCfgr(sw) ==
  [SW : {sw}, HPRE : {0}, PPRE1 : {2}, PPRE2 : {1}, ADCPRE : {4},
   PLLSRC : {TRUE}, PLLXTPRE : {TRUE}, PLLMULL : {4}, USBPRE : {TRUE}]

Waits == {"hse_wait", "pll_wait", "switch_wait"}
(* Before the oscillator is ready, before the PLL is, and with both.       *)
Before == {"levels", "outputs", "hse_on", "hse_wait", "hse_failed"}
OnOscillator == {"configure", "pll_on", "pll_wait"}
OnPll == {"switch", "switch_wait", "switch_failed", "switched", "systick_pll"}
(* Where nobody has asked for the PLL yet.                                 *)
NotAsked ==
  Before \cup OnOscillator \cup {"flash", "pll_failed", "pll_undone", "switch"}
Places ==
  NotAsked \cup OnPll \cup {"systick_hsi", "done"}

PllReady == hse = "ready" /\ pll = "ready" /\ wait_states = 1

BoardInv ==
  /\ board_pc \in Places
  /\ remaining \in 0 .. HSE_STARTUP_TIMEOUT
  /\ board_pc \in Waits => remaining # 0
  /\ hse \in {"off", "starting", "ready"} /\ pll \in {"off", "starting", "ready"}
  /\ sws \in {"HSI", "PLL"} /\ wait_states \in {0, 1}
  /\ SystemCoreClock \in {B!HSI_CLOCK, B!PLL_CLOCK}
  /\ ticks \in {0, B!HSI_CLOCK, B!PLL_CLOCK}

ClockInv ==
  /\ cfgr \in ResetCfgr \/ cfgr \in PllCfgr("HSI") \/ cfgr \in PllCfgr("PLL")
  /\ board_pc \in Before \cup {"flash", "configure"} => cfgr \in ResetCfgr /\ pll = "off"
  /\ board_pc \in {"pll_on", "pll_wait", "pll_failed", "pll_undone", "switch"} =>
       cfgr \in PllCfgr("HSI")
  /\ board_pc \in OnPll \ {"switch"} => cfgr \in PllCfgr("PLL")
  /\ board_pc = "systick_hsi" => cfgr.SW = "HSI"
  /\ board_pc \in {"flash"} \cup OnOscillator => hse = "ready"
  /\ board_pc \in OnOscillator => wait_states = 1
  /\ board_pc \in OnPll => PllReady
  /\ board_pc \in NotAsked => sws = "HSI"
  /\ cfgr.SW = "PLL" \/ sws = "PLL" => PllReady /\ cfgr \notin ResetCfgr

(* The clock of the USB, from its switch on.                               *)
UsbInv ==
  /\ board_pc \in {"switched", "systick_pll"} \/ external_clock_ready =>
       cfgr \in PllCfgr("PLL") /\ sws = "PLL" /\ PllReady
  /\ board_pc = "systick_pll" \/ external_clock_ready => SystemCoreClock = B!PLL_CLOCK
  /\ external_clock_ready => board_pc = "done" /\ ticks = B!PLL_CLOCK

PinInv ==
  /\ outputs \subseteq B!Pins
  /\ board_pc = "levels" => level = [p \in B!Pins |-> FALSE] /\ outputs = {}
  /\ board_pc # "levels" => level = [p \in B!Pins |-> p = "LED_HEARTBEAT" /\ ~led_on]

MainInv == (board_pc = "done") <=> (pc # "boot")
BootInv == pc = "boot" => led_on = FALSE /\ external_clock_ready = FALSE

IInv == BoardInv /\ ClockInv /\ UsbInv /\ PinInv /\ MainInv /\ BootInv

-----------------------------------------------------------------------------
(* What SW the values of CFGR ask for, and how Switch and SwitchFailed      *)
(* change them.                                                            *)
LEMMA Cfgrs ==
  ASSUME NEW c
  PROVE  /\ c \in ResetCfgr => c.SW = "HSI" /\ c.PLLMULL = 0
         /\ c \in PllCfgr("HSI") =>
              /\ c.SW = "HSI" /\ c.PLLMULL = 4
              /\ [c EXCEPT !.SW = "PLL"] \in PllCfgr("PLL")
         /\ c \in PllCfgr("PLL") =>
              /\ c.SW = "PLL" /\ c.PLLMULL = 4
              /\ [c EXCEPT !.SW = "HSI"] \in PllCfgr("HSI")
BY DEF ResetCfgr, PllCfgr

LEMMA InvInit ==
  ASSUME FirmwareInit
  PROVE  IInv
<1>1. BoardInv /\ ClockInv
  BY Cfgrs, StartupTimeoutAssumption
     DEF FirmwareInit, B!Init, BoardInv, ClockInv, ResetCfgr, Places, Waits, NotAsked,
         Before, OnOscillator, OnPll
<1>2. led_on = FALSE /\ external_clock_ready = FALSE /\ pc = "boot"
  BY Zenon DEF FirmwareInit, Init
<1>3. UsbInv /\ PinInv /\ MainInv /\ BootInv
  BY <1>2 DEF FirmwareInit, B!Init, UsbInv, PinInv, MainInv, BootInv
<1>4. QED
  BY <1>1, <1>3 DEF IInv

(* The start and the hardware keep the board's part.                        *)
LEMMA ClockStep ==
  ASSUME BoardInv, ClockInv, board_step \/ clock_hardware
  PROVE  BoardInv' /\ ClockInv'
<1> USE StartupTimeoutAssumption
    DEF B!gpio, B!clocks, Places, Waits, NotAsked, Before, OnOscillator, OnPll
<1>1. B!board_init \/ B!HseStarts \/ B!PllStarts \/ B!ClockChanges
  BY DEF board_step, clock_hardware
<1>2. CASE B!SafeLevels
  <2>1. BoardInv'
    BY <1>2 DEF BoardInv, ClockInv, PllReady, B!SafeLevels
  <2>2. ClockInv'
    BY <1>2, Cfgrs DEF BoardInv, ClockInv, PllReady, B!SafeLevels
  <2>3. QED
    BY <2>1, <2>2
<1>3. CASE \E p \in B!Pins : B!gpio_configure_push_pull_output(p)
  <2>1. BoardInv'
    BY <1>3 DEF BoardInv, ClockInv, PllReady, B!gpio_configure_push_pull_output
  <2>2. ClockInv'
    BY <1>3, Cfgrs DEF BoardInv, ClockInv, PllReady, B!gpio_configure_push_pull_output
  <2>3. QED
    BY <2>1, <2>2
<1>4. CASE B!HseOn
  <2>1. BoardInv'
    BY <1>4 DEF BoardInv, ClockInv, PllReady, B!HseOn
  <2>2. ClockInv'
    BY <1>4, Cfgrs DEF BoardInv, ClockInv, PllReady, B!HseOn
  <2>3. QED
    BY <2>1, <2>2
<1>5. CASE B!HseWait
  <2>1. BoardInv'
    BY <1>5 DEF BoardInv, ClockInv, PllReady, B!HseWait, B!wait_for_bits
  <2>2. ClockInv'
    BY <1>5, Cfgrs DEF BoardInv, ClockInv, PllReady, B!HseWait, B!wait_for_bits
  <2>3. QED
    BY <2>1, <2>2
<1>6. CASE B!HseFailed
  <2>1. BoardInv'
    BY <1>6 DEF BoardInv, ClockInv, PllReady, B!HseFailed
  <2>2. ClockInv'
    BY <1>6, Cfgrs DEF BoardInv, ClockInv, PllReady, B!HseFailed
  <2>3. QED
    BY <2>1, <2>2
<1>7. CASE B!Flash
  <2>1. BoardInv'
    BY <1>7 DEF BoardInv, ClockInv, PllReady, B!Flash
  <2>2. ClockInv'
    BY <1>7, Cfgrs DEF BoardInv, ClockInv, PllReady, B!Flash
  <2>3. QED
    BY <2>1, <2>2
<1>8. CASE B!Configure
  <2>1. BoardInv'
    BY <1>8 DEF BoardInv, ClockInv, PllReady, B!Configure
  <2>2. ClockInv'
    BY <1>8, Cfgrs DEF BoardInv, ClockInv, PllReady, B!Configure, PllCfgr
  <2>3. QED
    BY <2>1, <2>2
<1>9. CASE B!PllOn
  <2>1. BoardInv'
    BY <1>9 DEF BoardInv, ClockInv, PllReady, B!PllOn
  <2>2. ClockInv'
    BY <1>9, Cfgrs DEF BoardInv, ClockInv, PllReady, B!PllOn
  <2>3. QED
    BY <2>1, <2>2
<1>10. CASE B!PllWait
  <2>1. BoardInv'
    BY <1>10 DEF BoardInv, ClockInv, PllReady, B!PllWait, B!wait_for_bits
  <2>2. ClockInv'
    BY <1>10, Cfgrs DEF BoardInv, ClockInv, PllReady, B!PllWait, B!wait_for_bits
  <2>3. QED
    BY <2>1, <2>2
<1>11. CASE B!PllFailed
  <2>1. BoardInv'
    BY <1>11 DEF BoardInv, ClockInv, PllReady, B!PllFailed
  <2>2. ClockInv'
    BY <1>11, Cfgrs DEF BoardInv, ClockInv, PllReady, B!PllFailed
  <2>3. QED
    BY <2>1, <2>2
<1>12. CASE B!PllUndone
  <2>1. BoardInv'
    BY <1>12 DEF BoardInv, ClockInv, PllReady, B!PllUndone
  <2>2. ClockInv'
    BY <1>12, Cfgrs DEF BoardInv, ClockInv, PllReady, B!PllUndone
  <2>3. QED
    BY <2>1, <2>2
<1>13. CASE B!Switch
  <2>1. BoardInv'
    BY <1>13 DEF BoardInv, ClockInv, PllReady, B!Switch
  <2>2. ClockInv'
    BY <1>13, Cfgrs DEF BoardInv, ClockInv, PllReady, B!Switch
  <2>3. QED
    BY <2>1, <2>2
<1>14. CASE B!SwitchWait
  <2>1. BoardInv'
    BY <1>14 DEF BoardInv, ClockInv, PllReady, B!SwitchWait, B!wait_for_bits
  <2>2. ClockInv'
    BY <1>14, Cfgrs DEF BoardInv, ClockInv, PllReady, B!SwitchWait, B!wait_for_bits
  <2>3. QED
    BY <2>1, <2>2
<1>15. CASE B!SwitchFailed
  <2>1. BoardInv'
    BY <1>15 DEF BoardInv, ClockInv, PllReady, B!SwitchFailed
  <2>2. ClockInv'
    <3>1. /\ board_pc = "switch_failed" /\ board_pc' = "systick_hsi"
          /\ UNCHANGED <<hse, pll, sws, wait_states>>
          /\ cfgr' = [cfgr EXCEPT !.SW = "HSI"]
      BY <1>15 DEF B!SwitchFailed
    <3>2. cfgr \in PllCfgr("PLL") /\ PllReady
      BY <3>1 DEF ClockInv
    <3>3. cfgr' \in PllCfgr("HSI")
      BY <3>1, <3>2, Cfgrs
    <3>4. cfgr'.SW = "HSI" /\ cfgr' \notin ResetCfgr
      BY <3>3 DEF ResetCfgr, PllCfgr
    <3>5. PllReady'
      BY <3>1, <3>2 DEF PllReady
    <3>6. QED
      BY <3>1, <3>3, <3>4, <3>5 DEF ClockInv
  <2>3. QED
    BY <2>1, <2>2
<1>16. CASE B!Switched
  <2>1. BoardInv'
    BY <1>16 DEF BoardInv, ClockInv, PllReady, B!Switched
  <2>2. ClockInv'
    BY <1>16, Cfgrs DEF BoardInv, ClockInv, PllReady, B!Switched
  <2>3. QED
    BY <2>1, <2>2
<1>17. CASE B!systick_init
  <2>1. BoardInv'
    BY <1>17 DEF BoardInv, ClockInv, PllReady, B!systick_init
  <2>2. ClockInv'
    BY <1>17, Cfgrs DEF BoardInv, ClockInv, PllReady, B!systick_init
  <2>3. QED
    BY <2>1, <2>2
<1>18. CASE B!HseStarts
  <2>1. BoardInv'
    BY <1>18 DEF BoardInv, ClockInv, PllReady, B!HseStarts
  <2>2. ClockInv'
    BY <1>18, Cfgrs DEF BoardInv, ClockInv, PllReady, B!HseStarts
  <2>3. QED
    BY <2>1, <2>2
<1>19. CASE B!PllStarts
  <2>1. BoardInv'
    BY <1>19 DEF BoardInv, ClockInv, PllReady, B!PllStarts
  <2>2. ClockInv'
    <3>1. /\ pll = "starting" /\ pll' = "ready"
          /\ UNCHANGED <<board_pc, cfgr, hse, sws, wait_states>>
      BY <1>19 DEF B!PllStarts
    <3>2. ~ PllReady /\ ~ (cfgr.SW = "PLL" \/ sws = "PLL")
      BY <3>1 DEF ClockInv, PllReady
    <3>3. board_pc \notin OnPll /\ board_pc \notin Before \cup {"flash", "configure"}
      BY <3>1, <3>2 DEF ClockInv
    <3>4. QED
      BY <3>1, <3>2, <3>3 DEF ClockInv
  <2>3. QED
    BY <2>1, <2>2
<1>20. CASE B!ClockChanges
  <2>1. BoardInv'
    <3>1. sws' = cfgr.SW /\ UNCHANGED <<board_pc, remaining, hse, pll, wait_states,
                                       SystemCoreClock, ticks>>
      BY <1>20 DEF B!ClockChanges
    <3>2. cfgr.SW \in {"HSI", "PLL"}
      BY Cfgrs DEF ClockInv
    <3>3. QED
      BY <3>1, <3>2 DEF BoardInv
  <2>2. ClockInv'
    <3>1. sws' = cfgr.SW /\ UNCHANGED <<board_pc, cfgr, hse, pll, wait_states>>
      BY <1>20 DEF B!ClockChanges
    <3>2. board_pc \in NotAsked => cfgr.SW = "HSI"
      BY Cfgrs DEF ClockInv
    <3>3. QED
      BY <3>1, <3>2 DEF ClockInv, PllReady
  <2>3. QED
    BY <2>1, <2>2
<1>21. QED
  BY <1>1, <1>2, <1>3, <1>4, <1>5, <1>6, <1>7, <1>8, <1>9, <1>10, <1>11, <1>12, <1>13, <1>14, <1>15, <1>16, <1>17, <1>18, <1>19, <1>20 DEF B!board_init

(* Only the end of the start changes pc and what the loop knows of the      *)
(* clock.                                                                   *)
LEMMA MainStep ==
  ASSUME IInv, board_step \/ clock_hardware
  PROVE  /\ MainInv' /\ BootInv'
         /\ led_on' = led_on
         /\ board_pc' = "done" /\ board_pc # "done"
              => external_clock_ready' = (board_pc = "systick_pll")
         /\ ~(board_pc' = "done" /\ board_pc # "done") => UNCHANGED vars
<1>1. CASE clock_hardware
  <2>1. UNCHANGED vars /\ UNCHANGED board_pc
    BY <1>1 DEF clock_hardware, B!HseStarts, B!PllStarts, B!ClockChanges
  <2>2. QED
    BY <2>1 DEF IInv, MainInv, BootInv, vars, timers
<1>2. CASE board_step
  <2>1. board_pc # "done"
    BY <1>2 DEF board_step, B!board_init, B!SafeLevels, B!gpio_configure_push_pull_output,
       B!HseOn, B!HseWait, B!HseFailed, B!Flash, B!Configure, B!PllOn, B!PllWait,
       B!PllFailed, B!PllUndone, B!Switch, B!SwitchWait, B!SwitchFailed, B!Switched,
       B!systick_init, B!wait_for_bits
  <2>2. CASE board_pc' = "done"
    <3>1. board_init /\ external_clock_ready' = (board_pc = "systick_pll")
      BY <1>2, <2>2 DEF board_step
    <3>2. pc' = "start" /\ led_on' = led_on
      BY <3>1 DEF board_init
    <3>3. QED
      BY <2>1, <2>2, <3>1, <3>2 DEF MainInv, BootInv
  <2>3. CASE board_pc' # "done"
    <3>1. UNCHANGED vars
      BY <1>2, <2>3 DEF board_step
    <3>2. QED
      BY <2>1, <2>3, <3>1 DEF IInv, MainInv, BootInv, vars, timers
  <2>4. QED
    BY <2>2, <2>3
<1>3. QED
  BY <1>1, <1>2

(* The pins are set up in the order that keeps them safe.                   *)
LEMMA PinStep ==
  ASSUME IInv, board_step \/ clock_hardware
  PROVE  PinInv'
<1>1. led_on' = led_on
  BY MainStep
<1>2. B!board_init \/ B!HseStarts \/ B!PllStarts \/ B!ClockChanges
  BY DEF board_step, clock_hardware
<1>3. CASE B!SafeLevels
  <2>1. ~led_on /\ board_pc = "levels"
    BY <1>3 DEF IInv, MainInv, BootInv, B!SafeLevels
  <2>2. level' = [p \in B!Pins |-> p = "LED_HEARTBEAT"]
    <3>1. level' = [p \in B!Pins |-> p \notin B!MOTOR_OUTPUT_PINS]
      BY <1>3 DEF B!SafeLevels
    <3>2. \A p \in B!Pins : (p \notin B!MOTOR_OUTPUT_PINS) = (p = "LED_HEARTBEAT")
      BY DEF B!MOTOR_OUTPUT_PINS
    <3>3. QED
      BY <3>1, <3>2, Zenon
  <2>3. level' = [p \in B!Pins |-> p = "LED_HEARTBEAT" /\ ~led_on']
    <3>1. \A p \in B!Pins : (p = "LED_HEARTBEAT" /\ ~led_on') = (p = "LED_HEARTBEAT")
      BY <1>1, <2>1, Zenon
    <3>2. QED
      BY <2>2, <3>1, Zenon
  <2>4. QED
    BY <1>3, <2>1, <2>3 DEF IInv, PinInv, B!SafeLevels
<1>4. CASE \E p \in B!Pins : B!gpio_configure_push_pull_output(p)
  BY <1>1, <1>4 DEF IInv, PinInv, B!gpio_configure_push_pull_output
<1>5. CASE UNCHANGED <<level, outputs>> /\ board_pc # "levels" /\ board_pc' # "levels"
  BY <1>1, <1>5 DEF IInv, PinInv
<1>6. CASE UNCHANGED <<level, outputs, board_pc>>
  BY <1>1, <1>6 DEF IInv, PinInv
<1>7. QED
  BY <1>2, <1>3, <1>4, <1>5, <1>6
     DEF B!board_init, B!HseStarts, B!PllStarts, B!ClockChanges, B!gpio,
         B!HseOn, B!HseWait, B!HseFailed, B!Flash, B!Configure, B!PllOn, B!PllWait,
         B!PllFailed, B!PllUndone, B!Switch, B!SwitchWait, B!SwitchFailed, B!Switched,
         B!systick_init, B!wait_for_bits

(* Nothing takes the PLL away from a program that counts on it.             *)
LEMMA UsbStep ==
  ASSUME IInv, board_step \/ clock_hardware
  PROVE  UsbInv'
<1>1. (board_pc' = "done" /\ board_pc # "done") \/ external_clock_ready' = external_clock_ready
  BY MainStep DEF vars, timers
<1>2. B!board_init \/ B!HseStarts \/ B!PllStarts \/ B!ClockChanges
  BY DEF board_step, clock_hardware
<1>3. ~ external_clock_ready \/ board_pc = "done"
  BY DEF IInv, UsbInv
<1>4. CASE B!SwitchWait
  BY <1>1, <1>4 DEF IInv, UsbInv, ClockInv, PllReady, OnPll, B!SwitchWait,
     B!wait_for_bits, B!clocks
<1>5. CASE B!Switched
  BY <1>1, <1>5 DEF IInv, UsbInv, PllReady, B!Switched, B!clocks
<1>6. CASE B!systick_init
  <2>1. external_clock_ready' => board_pc = "systick_pll"
    BY <1>6, MainStep DEF B!systick_init
  <2>2. QED
    BY <1>6, <2>1 DEF IInv, UsbInv, PllReady, B!systick_init, B!clocks
<1>7. CASE B!HseStarts \/ B!PllStarts \/ B!ClockChanges
  <2>1. UNCHANGED <<board_pc, cfgr, wait_states, SystemCoreClock, ticks>>
    BY <1>7 DEF B!HseStarts, B!PllStarts, B!ClockChanges
  <2>2. external_clock_ready' = external_clock_ready
    BY <1>1, <2>1
  <2>3. PllReady => PllReady'
    BY <1>7 DEF PllReady, B!HseStarts, B!PllStarts, B!ClockChanges
  <2>4. cfgr \in PllCfgr("PLL") /\ sws = "PLL" => sws' = "PLL"
    BY <1>7, Cfgrs DEF B!HseStarts, B!PllStarts, B!ClockChanges
  <2>5. QED
    BY <2>1, <2>2, <2>3, <2>4 DEF IInv, UsbInv
<1>8. CASE /\ board_pc \notin {"switched", "systick_pll", "done"}
           /\ board_pc' \notin {"switched", "systick_pll", "done"}
  BY <1>1, <1>3, <1>8 DEF IInv, UsbInv
<1>9. QED
  BY <1>2, <1>4, <1>5, <1>6, <1>7, <1>8
     DEF B!board_init, B!SafeLevels, B!gpio_configure_push_pull_output,
         B!HseOn, B!HseWait, B!HseFailed, B!Flash, B!Configure, B!PllOn, B!PllWait,
         B!PllFailed, B!PllUndone, B!Switch, B!SwitchFailed, B!wait_for_bits

(* The loop leaves the clock alone, and the LED's pin follows led_on.       *)
LEMMA LoopStepInv ==
  ASSUME IInv, loop_step \/ toggle_led
  PROVE  IInv'
<1>1. /\ UNCHANGED <<board_pc, remaining, outputs, hse, pll, cfgr, sws, wait_states,
                     SystemCoreClock, ticks>>
      /\ external_clock_ready' = external_clock_ready
      /\ pc # "boot" /\ pc' # "boot"
  BY DEF loop_step, toggle_led, boardvars, Toggle, ReadToggleStart, ReadHeartbeatStart,
         PulseStart, PulseEnd, ReadNow, Heartbeat, Wake, SysTick_Handler, timers
<1>2. BoardInv' /\ ClockInv' /\ UsbInv' /\ MainInv' /\ BootInv'
  BY <1>1 DEF IInv, BoardInv, ClockInv, PllReady, UsbInv, MainInv, BootInv
<1>3. board_pc # "levels" /\ board_pc' # "levels" /\ outputs' \subseteq B!Pins
  BY <1>1 DEF IInv, MainInv, PinInv
<1>4. CASE led_on' = led_on /\ level' = level
  <2>1. level = [p \in B!Pins |-> p = "LED_HEARTBEAT" /\ ~led_on]
    BY <1>3 DEF IInv, PinInv
  <2>2. level' = [p \in B!Pins |-> p = "LED_HEARTBEAT" /\ ~led_on']
    BY <1>4, <2>1, Zenon
  <2>3. QED
    BY <1>2, <1>3, <2>2, Zenon DEF IInv, PinInv
<1>5. CASE level' = [level EXCEPT !["LED_HEARTBEAT"] = ~led_on']
  <2>1. level = [p \in B!Pins |-> p = "LED_HEARTBEAT" /\ ~led_on]
    BY <1>3 DEF IInv, PinInv
  <2>2. level' = [p \in B!Pins |-> IF p = "LED_HEARTBEAT" THEN ~led_on' ELSE level[p]]
    BY <1>5, <2>1, Zenon
  <2>3. \A p \in B!Pins : (IF p = "LED_HEARTBEAT" THEN ~led_on' ELSE level[p])
                           = (p = "LED_HEARTBEAT" /\ ~led_on')
    BY <2>1, Zenon
  <2>4. level' = [p \in B!Pins |-> p = "LED_HEARTBEAT" /\ ~led_on']
    BY <2>2, <2>3, Zenon
  <2>5. QED
    BY <1>2, <1>3, <2>4, Zenon DEF IInv, PinInv
<1>6. \/ led_on' = led_on /\ level' = level
      \/ level' = [level EXCEPT !["LED_HEARTBEAT"] = ~led_on']
  <2>1. CASE loop_step
    BY <2>1 DEF loop_step, boardvars, ReadToggleStart, ReadHeartbeatStart, PulseStart,
       PulseEnd, ReadNow, Heartbeat, Wake, SysTick_Handler, timers
  <2>2. CASE toggle_led
    BY <2>2, Zenon DEF toggle_led, board_led_set
  <2>3. QED
    BY <2>1, <2>2
<1>7. QED
  BY <1>2, <1>4, <1>5, <1>6 DEF IInv

-----------------------------------------------------------------------------
(* The theorems.                                                           *)

LEMMA InvNext ==
  ASSUME IInv, [FirmwareNext]_firmwarevars
  PROVE  IInv'
<1>1. CASE board_step \/ clock_hardware
  BY <1>1, ClockStep, MainStep, PinStep, UsbStep DEF IInv
<1>2. CASE loop_step \/ toggle_led
  BY <1>2, LoopStepInv
<1>3. CASE UNCHANGED firmwarevars
  BY <1>3 DEF firmwarevars, boardvars, vars, timers, IInv, BoardInv, ClockInv, PllReady,
     UsbInv, PinInv, MainInv, BootInv
<1>4. QED
  BY <1>1, <1>2, <1>3 DEF FirmwareNext

LEMMA Invariance == FirmwareSpec => []IInv
<1>1. FirmwareInit => IInv
  BY InvInit
<1>2. IInv /\ [FirmwareNext]_firmwarevars => IInv'
  BY InvNext
<1>3. QED
  BY <1>1, <1>2, PTL DEF FirmwareSpec

(* No motor driver is awake at any moment, and the LED's pin shows led_on,  *)
(* however the start has gone.                                             *)
THEOREM PinsSafe == FirmwareSpec => []PinsAreSafe
<1>1. IInv => PinsAreSafe
  <2>1. ASSUME IInv, NEW p \in outputs
        PROVE  level[p] <=> p = "LED_HEARTBEAT" /\ ~led_on
    <3>1. p \in B!Pins /\ level = [q \in B!Pins |-> q = "LED_HEARTBEAT" /\ ~led_on]
      BY <2>1 DEF IInv, PinInv
    <3>2. QED
      BY <3>1, Zenon
  <2>2. QED
    BY <2>1 DEF PinsAreSafe
<1>2. QED
  BY <1>1, Invariance, PTL

(* The clock in use runs and nothing it drives is too slow for it, whatever *)
(* is late or missing, for every timeout.                                   *)
THEOREM ClockLegal == FirmwareSpec => []ClockIsLegal
<1>1. IInv => ClockIsLegal
  <2> SUFFICES ASSUME IInv PROVE ClockIsLegal
    OBVIOUS
  <2> USE DEF ClockIsLegal, B!ClockIsLegal, B!Running, B!Sysclk, B!PllOutput, B!PllInput,
          B!HSI_CLOCK, B!HSE_CLOCK
  <2>1. CASE sws = "HSI"
    <3>1. cfgr.PPRE1 \in {1, 2} /\ cfgr.PPRE2 = 1 /\ cfgr.ADCPRE \in {2, 4}
      BY DEF IInv, ClockInv, ResetCfgr, PllCfgr
    <3>2. QED
      BY <2>1, <3>1
  <2>2. CASE sws = "PLL"
    <3>1. /\ cfgr.PPRE1 = 2 /\ cfgr.PPRE2 = 1 /\ cfgr.ADCPRE = 4
          /\ cfgr.PLLMULL = 4
      BY <2>2 DEF IInv, ClockInv, ResetCfgr, PllCfgr
    <3>2. cfgr.PLLSRC = TRUE /\ cfgr.PLLXTPRE = TRUE /\ cfgr.USBPRE = TRUE
      BY <2>2 DEF IInv, ClockInv, ResetCfgr, PllCfgr
    <3>3. PllReady
      BY <2>2 DEF IInv, ClockInv
    <3>4. QED
      BY <2>2, <3>1, <3>2, <3>3 DEF PllReady
  <2>3. QED
    BY <2>1, <2>2 DEF IInv, BoardInv
<1>2. QED
  BY <1>1, Invariance, PTL

(* The USB never runs on another clock than its 48 MHz, and the intervals   *)
(* of the loop are counted in true milliseconds when it does.               *)
THEOREM UsbClocked == FirmwareSpec => []UsbHasItsClock
<1>1. IInv => UsbHasItsClock
  <2>1. SUFFICES ASSUME IInv, external_clock_ready
                 PROVE  /\ B!Sysclk = B!PLL_CLOCK /\ cfgr.USBPRE
                        /\ SystemCoreClock = B!Sysclk /\ ticks = B!Sysclk
    BY DEF UsbHasItsClock
  <2>2. cfgr \in PllCfgr("PLL") /\ sws = "PLL"
        /\ SystemCoreClock = B!PLL_CLOCK /\ ticks = B!PLL_CLOCK
    BY <2>1 DEF IInv, UsbInv
  <2>3. cfgr.PLLMULL = 4 /\ cfgr.PLLSRC = TRUE /\ cfgr.PLLXTPRE = TRUE /\ cfgr.USBPRE = TRUE
    BY <2>2 DEF PllCfgr
  <2>4. B!Sysclk = 48
    BY <2>2, <2>3 DEF B!Sysclk, B!PllOutput, B!PllInput, B!HSE_CLOCK
  <2>5. QED
    BY <2>2, <2>3, <2>4 DEF B!PLL_CLOCK
<1>2. QED
  BY <1>1, Invariance, PTL

(* The bits of the PLL are never written while it runs.                     *)
THEOREM PllSetWhileOff == FirmwareSpec => PllIsSetWhileOff
<1> DEFINE PllBits == <<cfgr.PLLSRC, cfgr.PLLXTPRE, cfgr.PLLMULL>>
<1>1. ASSUME IInv, [FirmwareNext]_firmwarevars, PllBits' # PllBits
      PROVE  pll = "off"
  <2>1. cfgr' # cfgr
    BY <1>1
  <2>2. B!Configure \/ B!Switch \/ B!SwitchFailed
    BY <1>1, <2>1
       DEF FirmwareNext, board_step, clock_hardware, toggle_led, loop_step, firmwarevars,
         boardvars, B!clocks, B!board_init, B!HseStarts, B!PllStarts, B!ClockChanges,
         B!SafeLevels, B!gpio_configure_push_pull_output, B!HseOn, B!HseWait,
         B!HseFailed, B!Flash, B!PllOn, B!PllWait, B!PllFailed, B!PllUndone,
         B!SwitchWait, B!Switched, B!systick_init, B!wait_for_bits
  <2>3. CASE B!Configure
    BY <1>1, <2>3 DEF IInv, ClockInv, B!Configure
  <2>4. CASE B!Switch
    <3>1. cfgr \in PllCfgr("HSI") /\ cfgr' \in PllCfgr("PLL")
      BY <1>1, <2>4, Cfgrs DEF IInv, ClockInv, OnPll, B!Switch
    <3>2. QED
      BY <1>1, <3>1 DEF PllCfgr
  <2>5. CASE B!SwitchFailed
    <3>1. cfgr \in PllCfgr("PLL") /\ cfgr' \in PllCfgr("HSI")
      BY <1>1, <2>5, Cfgrs DEF IInv, ClockInv, OnPll, B!SwitchFailed
    <3>2. QED
      BY <1>1, <3>1 DEF PllCfgr
  <2>6. QED
    BY <2>2, <2>3, <2>4, <2>5
<1>2. IInv /\ [FirmwareNext]_firmwarevars =>
        [<<cfgr'.PLLSRC, cfgr'.PLLXTPRE, cfgr'.PLLMULL>>
           # <<cfgr.PLLSRC, cfgr.PLLXTPRE, cfgr.PLLMULL>> => pll = "off"]_(B!vars)
  BY <1>1
<1>3. QED
  BY <1>2, Invariance, PTL DEF FirmwareSpec, PllIsSetWhileOff, B!PllIsSetWhileOff

(* The firmware implements the loop as MainLoop has it, so all that is      *)
(* proved of the loop holds of it.                                          *)
THEOREM LoopImplemented == FirmwareSpec => Spec
<1>1. FirmwareInit => Init
  BY DEF FirmwareInit
<1>2. ASSUME IInv, [FirmwareNext]_firmwarevars
      PROVE  [Next]_vars
  <2>1. CASE board_step
    <3>1. external_clock_ready' \in BOOLEAN \/ UNCHANGED vars
      BY <2>1, Zenon DEF board_step
    <3>2. QED
      BY <2>1, <3>1 DEF board_step, Next
  <2>2. CASE toggle_led
    BY <2>2 DEF toggle_led, Next
  <2>3. CASE loop_step
    BY <2>3 DEF loop_step, Next
  <2>4. CASE clock_hardware \/ UNCHANGED firmwarevars
    BY <2>4 DEF clock_hardware, firmwarevars
  <2>5. QED
    BY <1>2, <2>1, <2>2, <2>3, <2>4 DEF FirmwareNext
<1>3. QED
  BY <1>1, <1>2, Invariance, PTL DEF FirmwareSpec, Spec

(* The timers of the whole firmware: while the port is configured, no       *)
(* heartbeat is late, they keep their distance, and the LED follows the     *)
(* time, whatever the outcome of the start was.                             *)
THEOREM FirmwareKeepsTime ==
  FirmwareSpec => []HeartbeatRecent /\ []LedFollowsTime /\ HeartbeatOnTime
BY LoopImplemented, HeartbeatNeverLate, LedOnTime, HeartbeatSpacing

===============================================================================
