-------------------------- MODULE Odometry_proofs --------------------------
(* That the wheels are measured truly, for every width of the counters, every  *)
(* sampling interval and every length of a pass that Odometry assumes.          *)
EXTENDS Odometry, TLAPS

\* What the program can tell from its readings of the clock is the true time,
ClockInv ==
  /\ Elapsed(millis, ms) = pass_age
  /\ Elapsed(millis, last_update_time) = true_time
  /\ pc = "getRPM" => Elapsed(millis, current_time) = reading_age /\ reading_age <= pass_age
  /\ pc # "getRPM" => reading_age = true_time

\* a setting is at most as late as its pass, after the interval, began,
Due == Elapsed(millis, lastCommandUpdate)
ScheduleInv ==
  /\ true_time <= Due /\ Due <= true_time + MaxStart
  /\ pass_age <= IF pc = "loop" THEN MaxPass ELSE MaxStart
  /\ pc = "loop" => Due <= SAMPLE_DELTA - 1 + pass_age
  /\ pc # "loop" => /\ SAMPLE_DELTA + pass_age <= Due
                    /\ Due <= SAMPLE_DELTA - 1 + MaxPass + pass_age

\* and the wheel has turned no further than its speed allows.
TicksInv ==
  /\ count - last_encoder_ticks - true_ticks \in {-TickSize, 0, TickSize}
  /\ true_ticks <= MaxTicks * true_time + turned
  /\ -true_ticks <= MaxTicks * true_time + turned

IInv == TypeOK /\ ClockInv /\ ScheduleInv /\ TicksInv

\* The arithmetic of the clock: a tick makes a difference greater by one, unless it
\* completes a turn, and of two moments before the present the time between is known.
Reading == 0 .. CounterSize - 1
Later(now) == IF now + 1 = CounterSize THEN 0 ELSE now + 1

LEMMA SomeTicks == TickSize \in Nat /\ 0 < TickSize /\ 0 < CounterSize /\ 0 < SAMPLE_DELTA
<1>1. Longest + 1 \in Nat /\ 0 < SAMPLE_DELTA /\ 0 < CounterSize
  BY OdometryAssumption DEF Longest
<1>2. 0 <= 2 * MaxTicks * (Longest + 1)
  BY <1>1, OdometryAssumption
<1> QED BY <1>1, <1>2, OdometryAssumption

LEMMA ElapsedIsNat ==
  ASSUME NEW a \in Reading, NEW b \in Reading
  PROVE  Elapsed(a, b) \in Nat /\ Elapsed(a, b) < CounterSize /\ Elapsed(a, a) = 0
BY OdometryAssumption DEF Reading, Elapsed

LEMMA ElapsedTick ==
  ASSUME NEW now \in Reading, NEW then \in Reading, Elapsed(now, then) + 1 < CounterSize
  PROVE  /\ Later(now) \in Reading
         /\ Elapsed(Later(now), then) = Elapsed(now, then) + 1
BY OdometryAssumption DEF Reading, Elapsed, Later

LEMMA ElapsedBetween ==
  ASSUME NEW now \in Reading, NEW later \in Reading, NEW earlier \in Reading,
         Elapsed(now, later) <= Elapsed(now, earlier)
  PROVE  Elapsed(later, earlier) = Elapsed(now, earlier) - Elapsed(now, later)
BY OdometryAssumption DEF Reading, Elapsed

\* A count stays within its width, and a difference of counts is the true one when
\* that is less than half of it.
LEMMA CountTurns ==
  ASSUME NEW n \in 0 .. TickSize - 1, NEW d \in {-1, 1}
  PROVE  /\ Wrapped(n + d) \in 0 .. TickSize - 1
         /\ Wrapped(n + d) - n - d \in {-TickSize, 0, TickSize}
BY OdometryAssumption DEF Wrapped

LEMMA SignedIsTrue ==
  ASSUME NEW n \in Int, NEW t \in Int, n - t \in {-TickSize, 0, TickSize},
         -TickSize < n, n < TickSize, 2 * t < TickSize, -(2 * t) < TickSize
  PROVE  Signed(n) = t
BY OdometryAssumption DEF Signed

LEMMA LessThanATurn ==
  ASSUME NEW n \in 0 .. TickSize - 1, NEW m \in 0 .. TickSize - 1
  PROVE  n - m \in Int /\ -TickSize < n - m /\ n - m < TickSize
BY SomeTicks

LEMMA OneTurn ==
  ASSUME NEW n \in Int, NEW t \in Int,
         NEW a \in {-TickSize, 0, TickSize}, NEW b \in {-TickSize, 0, TickSize},
         n - t = a + b, -TickSize < n, n < TickSize, 2 * t < TickSize, -(2 * t) < TickSize
  PROVE  a + b \in {-TickSize, 0, TickSize}
BY SomeTicks

LEMMA InitInv == Init => IInv
<1> SUFFICES ASSUME Init PROVE IInv
  OBVIOUS
<1> USE OdometryAssumption
<1>1. TypeOK
  BY SomeTicks DEF Init, TypeOK
<1>2. ClockInv /\ ScheduleInv
  BY SomeTicks DEF Init, ClockInv, ScheduleInv, Elapsed, Due
<1>3. MaxTicks * 0 = 0
  OBVIOUS
<1>4. TicksInv
  BY <1>3 DEF Init, TicksInv
<1> QED BY <1>1, <1>2, <1>4 DEF IInv

LEMMA StepInv ==
  ASSUME IInv, [Next]_vars
  PROVE  IInv'
<1> USE OdometryAssumption
<1>0. TypeOK /\ Longest \in Nat /\ Longest < CounterSize
      /\ Longest = SAMPLE_DELTA - 1 + MaxPass + MaxStart
  BY DEF IInv, Longest
<1>1. /\ millis \in Reading /\ ms \in Reading /\ last_update_time \in Reading
      /\ current_time \in Reading /\ lastCommandUpdate \in Reading
      /\ Due \in Nat /\ Due <= Longest /\ Elapsed(millis, millis) = 0
      /\ Elapsed(millis, current_time) \in Nat
  <2>1. Due \in Nat /\ Elapsed(millis, millis) = 0 /\ Elapsed(millis, current_time) \in Nat
    BY <1>0, ElapsedIsNat DEF TypeOK, Reading, Due
  <2> QED BY <1>0, <2>1 DEF IInv, TypeOK, ScheduleInv, Reading
<1>2. CASE Tick
  <2>1. pass_age < (IF pc = "loop" THEN MaxPass ELSE MaxStart)
    BY <1>2 DEF Tick
  <2>2. Due + 1 <= Longest /\ pass_age + 1 < CounterSize /\ true_time + 1 < CounterSize
        /\ (pc = "getRPM" => reading_age + 1 < CounterSize)
    BY <1>0, <1>1, <2>1 DEF IInv, TypeOK, ScheduleInv, ClockInv
  <2>3. millis' = Later(millis) /\ millis' \in Reading /\ Due' = Due + 1
    BY <1>0, <1>1, <1>2, <2>2, ElapsedTick DEF Tick, Later, Due, loop_vars
  <2>4. ClockInv'
    <3>1. Elapsed(millis, ms)' = pass_age'
      BY <1>0, <1>1, <1>2, <2>2, <2>3, ElapsedTick DEF Tick, IInv, ClockInv, loop_vars
    <3>2. Elapsed(millis, last_update_time)' = true_time'
      BY <1>0, <1>1, <1>2, <2>2, <2>3, ElapsedTick DEF Tick, IInv, ClockInv, odometry
    <3>3. pc = "getRPM" => Elapsed(millis, current_time)' = reading_age'
      BY <1>0, <1>1, <1>2, <2>2, <2>3, ElapsedTick DEF Tick, IInv, ClockInv
    <3> QED BY <1>0, <1>2, <3>1, <3>2, <3>3 DEF Tick, IInv, ClockInv, TypeOK, loop_vars
  <2>5. ScheduleInv'
    BY <1>0, <1>1, <1>2, <2>1, <2>3 DEF Tick, IInv, ScheduleInv, TypeOK, loop_vars
  <2>6. MaxTicks * (true_time + 1) = MaxTicks * true_time + MaxTicks
    BY <1>0 DEF TypeOK
  <2>7. TicksInv'
    BY <1>0, <1>2, <2>6 DEF Tick, IInv, TicksInv, TypeOK, odometry
  <2>8. TypeOK'
    BY <1>0, <1>2, <2>1, <2>3 DEF Tick, TypeOK, Reading, loop_vars, odometry
  <2> QED BY <2>4, <2>5, <2>7, <2>8 DEF IInv
<1>3. ASSUME NEW d \in {-1, 1}, Turn(d) PROVE IInv'
  <2>1. count' \in 0 .. TickSize - 1 /\ count' - count - d \in {-TickSize, 0, TickSize}
    BY <1>0, <1>3, CountTurns DEF Turn, TypeOK
  <2>2. MaxTicks * true_time \in Nat
    BY <1>0 DEF TypeOK
  <2>3. true_ticks' <= MaxTicks * true_time + turned' /\ -true_ticks' <= MaxTicks * true_time + turned'
    BY <1>0, <1>3, <2>2 DEF Turn, IInv, TicksInv, TypeOK
  <2>4. count' - last_encoder_ticks - true_ticks' \in {-TickSize, 0, TickSize}
    <3>1. MaxTicks * true_time <= MaxTicks * Longest
      BY <1>0, <1>1 DEF IInv, ScheduleInv, TypeOK
    <3>2. MaxTicks * (Longest + 1) = MaxTicks * Longest + MaxTicks
      BY <1>0
    <3>3. 2 * true_ticks' < TickSize /\ -(2 * true_ticks') < TickSize
      BY <1>0, <1>3, <2>2, <2>3, <3>1, <3>2 DEF Turn, TypeOK, Longest
    <3>4. PICK a \in {-TickSize, 0, TickSize}, b \in {-TickSize, 0, TickSize} :
            count' - count - d = a /\ count - last_encoder_ticks - true_ticks = b
      BY <2>1 DEF IInv, TicksInv
    <3>5. count' - last_encoder_ticks - true_ticks' = a + b
      BY <1>0, <1>3, <2>1, <3>4 DEF Turn, TypeOK
    <3>6. -TickSize < count' - last_encoder_ticks /\ count' - last_encoder_ticks < TickSize
      <4>1. count' \in 0 .. TickSize - 1 /\ last_encoder_ticks \in 0 .. TickSize - 1
        BY <1>0, <2>1 DEF TypeOK
      <4> QED BY <4>1, LessThanATurn
    <3>7. a + b \in {-TickSize, 0, TickSize}
      <4>1. count' - last_encoder_ticks \in Int /\ true_ticks' \in Int
        BY <1>0, <1>3, <2>1 DEF Turn, TypeOK
      <4> QED BY <3>3, <3>4, <3>5, <3>6, <4>1, OneTurn
    <3> QED BY <1>3, <3>5, <3>7 DEF Turn, odometry
  <2>5. ClockInv' /\ ScheduleInv'
    BY <1>3 DEF Turn, IInv, ClockInv, ScheduleInv, Due, clock, loop_vars, odometry
  <2>6. TypeOK'
    BY <1>0, <1>3, <2>1 DEF Turn, TypeOK, clock, loop_vars, odometry
  <2>7. TicksInv'
    BY <1>3, <2>3, <2>4 DEF Turn, TicksInv, odometry
  <2> QED BY <2>5, <2>6, <2>7 DEF IInv
<1>4. CASE loop
  <2>1. Due' = Due /\ true_time' = true_time /\ Elapsed(millis', ms') = 0
    BY <1>1, <1>4 DEF loop, Due
  <2>2. ClockInv'
    BY <1>4, <2>1 DEF loop, IInv, ClockInv, odometry
  <2>3. ScheduleInv'
    BY <1>0, <1>1, <1>4, <2>1 DEF loop, IInv, ScheduleInv, Due, TypeOK
  <2> QED BY <1>4, <2>2, <2>3 DEF loop, IInv, TypeOK, TicksInv, odometry
<1>5. CASE read_time
  <2>1. Due' = Due /\ UNCHANGED <<millis, pass_age, ms, true_time, odometry>>
    BY <1>5 DEF read_time, Due, clock
  <2>2. ClockInv'
    BY <1>0, <1>1, <1>5, <2>1 DEF read_time, IInv, ClockInv, odometry, TypeOK
  <2>3. ScheduleInv'
    BY <1>5, <2>1 DEF read_time, IInv, ScheduleInv
  <2> QED BY <1>5, <2>1, <2>2, <2>3 DEF read_time, IInv, TypeOK, TicksInv, odometry, clock
<1>6. CASE getRPM
  <2>1. Due' = pass_age /\ UNCHANGED <<millis, pass_age, ms>>
    BY <1>6 DEF getRPM, Due, IInv, ClockInv, clock
  <2>2. ClockInv'
    BY <1>0, <1>6, <2>1 DEF getRPM, IInv, ClockInv
  <2>3. ScheduleInv'
    BY <1>0, <1>1, <1>6, <2>1 DEF getRPM, IInv, ScheduleInv, ClockInv, TypeOK
  <2>4. MaxTicks * reading_age \in Nat
    BY <1>0 DEF TypeOK
  <2>5. TicksInv'
    BY <1>0, <1>6, <2>4 DEF getRPM, TicksInv, TypeOK
  <2> QED BY <1>6, <2>1, <2>2, <2>3, <2>5 DEF getRPM, IInv, TypeOK, clock
<1>7. CASE UNCHANGED vars
  BY <1>7 DEF vars, clock, loop_vars, odometry, IInv, TypeOK, ClockInv, ScheduleInv,
              TicksInv, Due
<1> QED BY <1>2, <1>3, <1>4, <1>5, <1>6, <1>7 DEF Next

\* The counters, the loop's state and what is measured keep to their types.
THEOREM TypeCorrect == Spec => []TypeOK
<1>1. IInv => TypeOK
  BY DEF IInv
<1> QED BY <1>1, InitInv, StepInv, PTL DEF Spec

\* The measured time and ticks are the true ones (Odometry.cpp:11), across every
\* wrap of both counters.
THEOREM MeasurementTrue == Spec => []MeasuredIsTrue
<1>1. IInv => MeasuredIsTrue
  <2> SUFFICES ASSUME IInv, pc = "getRPM"
               PROVE  DeltaTime = true_time - reading_age /\ DeltaTicks = true_ticks
    BY DEF MeasuredIsTrue
  <2> USE OdometryAssumption
  <2>0. TypeOK /\ true_time <= Longest /\ reading_age <= true_time
    <3>1. TypeOK /\ Due \in Nat
      BY ElapsedIsNat DEF IInv, TypeOK, Due, Reading
    <3> QED BY <3>1 DEF IInv, ScheduleInv, ClockInv, TypeOK, Longest
  <2>1. DeltaTime = true_time - reading_age
    BY <2>0, ElapsedBetween DEF IInv, ClockInv, TypeOK, DeltaTime, Reading
  <2>2. MaxTicks * true_time <= MaxTicks * Longest
        /\ MaxTicks * (Longest + 1) = MaxTicks * Longest + MaxTicks
    BY <2>0 DEF TypeOK, Longest
  <2>3. 2 * true_ticks < TickSize /\ -(2 * true_ticks) < TickSize
    BY <2>0, <2>2 DEF IInv, TicksInv, TypeOK, Longest
  <2>4. DeltaTicks = true_ticks
    BY <2>0, <2>3, SignedIsTrue DEF IInv, TicksInv, TypeOK, DeltaTicks
  <2> QED BY <2>1, <2>4
<1> QED BY <1>1, InitInv, StepInv, PTL DEF Spec

\* A measurement never divides by zero, however long the passes are.
THEOREM NeverByZero == Spec => []ElapsedIsPositive
<1>1. IInv => ElapsedIsPositive
  <2> SUFFICES ASSUME IInv, pc = "getRPM" PROVE DeltaTime >= SAMPLE_DELTA - MaxStart
    BY DEF ElapsedIsPositive
  <2>0. TypeOK /\ Due \in Nat
    BY ElapsedIsNat DEF IInv, TypeOK, Due, Reading
  <2>1. reading_age <= true_time
    BY <2>0, OdometryAssumption DEF IInv, ScheduleInv, ClockInv, TypeOK
  <2>2. DeltaTime = true_time - reading_age
    BY <2>0, <2>1, ElapsedBetween DEF IInv, ClockInv, TypeOK, DeltaTime, Reading
  <2> QED BY <2>0, <2>2, OdometryAssumption DEF IInv, ScheduleInv, ClockInv, TypeOK
<1> QED BY <1>1, InitInv, StepInv, PTL DEF Spec

\* The wheels are measured again before a counter can wrap around unnoticed.
THEOREM MeasuredOnTime == Spec => []MeasuredInTime
<1>1. IInv => MeasuredInTime
  <2> SUFFICES ASSUME IInv PROVE true_time <= Longest
    BY DEF MeasuredInTime
  <2>1. TypeOK /\ Due \in Nat
    BY ElapsedIsNat DEF IInv, TypeOK, Due, Reading
  <2> QED BY <2>1, OdometryAssumption DEF IInv, ScheduleInv, TypeOK, Longest
<1> QED BY <1>1, InitInv, StepInv, PTL DEF Spec
=============================================================================
