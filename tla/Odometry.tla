------------------------------ MODULE Odometry ------------------------------
(***************************************************************************)
(* How the old robot's loop measures the speed of a wheel (Odometry.cpp,   *)
(* called by move() in main.cpp): the ticks of an encoder and the          *)
(* milliseconds since the measurement before.  Both counters wrap.  The    *)
(* wheel turns, and time passes, between any two steps; a pass reads the   *)
(* clock once for its timers and move() once more for the measurement.     *)
(* The speed is the quotient of the two differences, in floating point:    *)
(* the model keeps the pair.                                               *)
(***************************************************************************)
EXTENDS Integers

CONSTANTS
  SAMPLE_DELTA,  \* ms between two measurements, at least
  CounterSize,   \* values of millis(), an unsigned long
  TickSize,      \* values of an encoder's count, an int
  MaxPass,       \* ms a pass of the loop takes, at most
  MaxStart,      \* ms of it until the wheel is measured, at most
  MaxTicks       \* ticks of the encoder in a ms, at most

\* The longest time between two measurements, and the ticks in it
Longest == SAMPLE_DELTA - 1 + MaxPass + MaxStart
ASSUME OdometryAssumption ==
  /\ SAMPLE_DELTA \in Nat /\ CounterSize \in Nat /\ TickSize \in Nat
  /\ MaxPass \in Nat /\ MaxStart \in Nat /\ MaxTicks \in Nat
  /\ MaxStart <= MaxPass /\ MaxStart < SAMPLE_DELTA /\ Longest < CounterSize
  /\ 2 * MaxTicks * (Longest + 1) < TickSize

VARIABLES
  millis, pass_age,           \* the time, and how much of it this pass has taken
  count, turned,              \* the encoder's count, and its ticks in this ms
  pc, ms, current_time,       \* the loop, its reading of the time, and move()'s
  lastCommandUpdate,
  last_update_time, last_encoder_ticks,   \* members of Odometry
  true_time, true_ticks,      \* since the readings behind the last measurement
  reading_age                 \* ms since move() has read the time

clock == <<millis, pass_age>>
loop_vars == <<pc, ms, lastCommandUpdate>>
odometry == <<last_update_time, last_encoder_ticks>>
vars == <<clock, count, turned, loop_vars, current_time, odometry,
          true_time, true_ticks, reading_age>>

\* unsigned long arithmetic wraps; that of a 16-bit int is assumed to, as the
\* compiler's subtraction does (C++ leaves its overflow undefined).
Elapsed(later, earlier) ==
  IF earlier <= later THEN later - earlier ELSE later - earlier + CounterSize
Wrapped(n) == IF n < 0 THEN n + TickSize ELSE IF n < TickSize THEN n ELSE n - TickSize
Signed(n) == IF 2 * n >= TickSize THEN n - TickSize ELSE IF 2 * n < -TickSize THEN n + TickSize ELSE n

DeltaTime == Elapsed(current_time, last_update_time)
\* Mutant: the counts are widened before they are subtracted.
WideDeltaTicks == Signed(count) - Signed(last_encoder_ticks)
DeltaTicks == Signed(count - last_encoder_ticks)

Init ==
  /\ millis = 0 /\ pass_age = 0 /\ count = 0 /\ turned = 0
  /\ pc = "loop" /\ ms = 0 /\ current_time = 0 /\ lastCommandUpdate = 0
  /\ last_update_time = 0 /\ last_encoder_ticks = 0
  /\ true_time = 0 /\ true_ticks = 0 /\ reading_age = 0

----------------------------------------------------------------------------
(* The surroundings *)

Tick ==
  /\ pass_age < IF pc = "loop" THEN MaxPass ELSE MaxStart
  /\ millis' = (IF millis + 1 = CounterSize THEN 0 ELSE millis + 1)
  /\ pass_age' = pass_age + 1
  /\ turned' = 0
  /\ true_time' = true_time + 1 /\ reading_age' = reading_age + 1
  /\ UNCHANGED <<count, loop_vars, current_time, odometry, true_ticks>>

Turn(d) ==
  /\ turned < MaxTicks
  /\ count' = Wrapped(count + d) /\ true_ticks' = true_ticks + d
  /\ turned' = turned + 1
  /\ UNCHANGED <<clock, loop_vars, current_time, odometry, true_time, reading_age>>

----------------------------------------------------------------------------
(* loop() and move() *)

\* Mutant: the time of the last setting is compared too early.
loop_early ==
  /\ pc = "loop"
  /\ ms' = millis /\ pass_age' = 0
  /\ pc' = IF Elapsed(millis, lastCommandUpdate) >= SAMPLE_DELTA - MaxStart
           THEN "move" ELSE "loop"
  /\ UNCHANGED <<millis, count, turned, lastCommandUpdate, current_time, odometry,
                 true_time, true_ticks, reading_age>>

\* A pass begins; it moves when a sampling interval has passed.
loop ==
  /\ pc = "loop"
  /\ ms' = millis /\ pass_age' = 0
  /\ pc' = IF Elapsed(millis, lastCommandUpdate) >= SAMPLE_DELTA
           THEN "move" ELSE "loop"
  /\ UNCHANGED <<millis, count, turned, lastCommandUpdate, current_time, odometry,
                 true_time, true_ticks, reading_age>>

\* move() reads the time anew,
read_time ==
  /\ pc = "move"
  /\ current_time' = millis /\ reading_age' = 0
  /\ pc' = "getRPM"
  /\ UNCHANGED <<clock, count, turned, ms, lastCommandUpdate, odometry,
                 true_time, true_ticks>>

\* and then the encoder; the loop notes the time at which its pass began.
getRPM ==
  /\ pc = "getRPM"
  /\ last_update_time' = current_time /\ last_encoder_ticks' = count
  /\ lastCommandUpdate' = ms
  /\ pc' = "loop"
  /\ true_time' = reading_age /\ true_ticks' = 0
  /\ UNCHANGED <<clock, count, turned, ms, current_time, reading_age>>

Next ==
  \/ Tick
  \/ \E d \in {-1, 1} : Turn(d)
  \/ loop \/ read_time \/ getRPM

Spec == Init /\ [][Next]_vars

----------------------------------------------------------------------------
(* Properties *)

\* The types of the counters, the loop's state and what is measured.
TypeOK ==
  /\ millis \in 0 .. CounterSize - 1 /\ pass_age \in 0 .. MaxPass
  /\ count \in 0 .. TickSize - 1 /\ turned \in 0 .. MaxTicks
  /\ pc \in {"loop", "move", "getRPM"}
  /\ ms \in 0 .. CounterSize - 1 /\ lastCommandUpdate \in 0 .. CounterSize - 1
  /\ current_time \in 0 .. CounterSize - 1 /\ last_update_time \in 0 .. CounterSize - 1
  /\ last_encoder_ticks \in 0 .. TickSize - 1
  /\ true_time \in Nat /\ true_ticks \in Int /\ reading_age \in Nat

\* The measured speed is that of the wheel (Odometry.cpp:11): across every wrap
\* the differences are the time between the readings and the ticks of the wheel,
\* none of them lost and none counted twice.
MeasuredIsTrue ==
  pc = "getRPM" => DeltaTime = true_time - reading_age /\ DeltaTicks = true_ticks

\* The speed is never a quotient by zero (Odometry.cpp:12), which the integral of
\* the motor controller would keep for ever, although the timer and the
\* measurement read the clock at different times and a pass may take long.
ElapsedIsPositive == pc = "getRPM" => DeltaTime >= SAMPLE_DELTA - MaxStart

\* The wheel is measured again in time, so that neither counter can have wrapped
\* around unnoticed.
MeasuredInTime == true_time <= Longest
=============================================================================
