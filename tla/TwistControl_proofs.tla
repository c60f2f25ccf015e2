------------------------- MODULE TwistControl_proofs -------------------------
(***************************************************************************)
(* Proofs about TwistControl: the robot stops in time and not too early,   *)
(* for any timeout, sampling interval, length of a pass and width of the   *)
(* counter that leave it room.                                             *)
(***************************************************************************)
EXTENDS TwistControl, TLAPS

Silence == Since(prevCommandTime)
SinceMove == Since(lastCommandUpdate)

\* A flag that waits in the shared data is younger than the pass, or it is the one
\* that this pass has seen.
FreshInv ==
  /\ pc = "updateBuffer" /\ staging_buffer.new_twist_command => command_age <= pass_age
  /\ pc = "command" =>
       /\ buffer = buffer_old
       /\ buffer.new_twist_command => command_age <= MaxPass + pass_age
  /\ pc = "finalizeWrites" =>
       /\ ~buffer.new_twist_command
       /\ buffer_old.new_twist_command => Silence <= pass_age
  /\ pc # "updateBuffer" /\ staging_buffer.new_twist_command
       => buffer_old.new_twist_command \/ command_age <= pass_age

\* A twist that is not zero has just come, or the timeout has not run out for longer
\* than it takes to notice.
TwistInv ==
  /\ pc = "updateBuffer" /\ staging_buffer.twist # Zero
       => command_age <= pass_age \/ Silence < COMMAND_TIMEOUT + pass_age
  /\ pc # "updateBuffer" /\ staging_buffer.twist # Zero
       => \/ command_age <= MaxPass + pass_age
          \/ Silence < COMMAND_TIMEOUT + MaxPass + pass_age
  /\ pc = "command" /\ buffer.twist # Zero
       => \/ command_age <= MaxPass + pass_age
          \/ Silence < COMMAND_TIMEOUT + MaxPass + pass_age
  /\ pc = "finalizeWrites" =>
       /\ buffer.twist \in {buffer_old.twist, Zero}
       /\ buffer.twist # Zero => Silence < COMMAND_TIMEOUT + pass_age
  /\ pc # "updateBuffer" /\ staging_buffer.twist # buffer_old.twist
       => command_age <= pass_age

\* The command that a twist belongs to is at most two passes older than the moment
\* from which the loop counts.
AgeInv ==
  (staging_buffer.twist # Zero \/ (pc # "updateBuffer" /\ buffer.twist # Zero))
    => command_age <= Silence + 2 * MaxPass

\* The controllers get their goal in time, and not a twist that had timed out.
MotorInv ==
  /\ SinceMove <= SAMPLE_DELTA - 1 + MaxPass + pass_age
  /\ pc # "command" => SinceMove <= SAMPLE_DELTA - 1 + pass_age
  /\ goal # Zero => command_age <= COMMAND_TIMEOUT - 1 + 2 * MaxPass + SinceMove

\* A flag that is gone has restarted the timeout at most a pass after it came.
FlagInv ==
  ~staging_buffer.new_twist_command => Silence <= flag_age + MaxPass \/ flag_age = OldAge

IInv == TypeOK /\ FreshInv /\ TwistInv /\ AgeInv /\ MotorInv /\ FlagInv

\* The command that arrived last ended with its flag, and its time is not over.
Current == command_age = flag_age /\ flag_age < COMMAND_TIMEOUT - MaxPass

\* A twist stands in the shared data until a stop is written back.  While a command
\* is current, no pass stops it that has read all of it or has its flag from before
\* its beginning, and the controllers have it once they were given a goal after that.
FollowInv ==
  /\ fate \in {"arrived", "flagged", "followed"} => staging_buffer.twist = sent
  /\ Current => fate # "over"
  /\ pc # "updateBuffer" /\ fate \in {"followed", "over"} /\ staging_buffer.new_twist_command
       => buffer_old.new_twist_command
  /\ Current /\ pc = "finalizeWrites" /\ (pass_age < command_age \/ fate = "followed")
       => buffer.twist = buffer_old.twist
  /\ Current /\ SinceMove + MaxPass < command_age => goal = staging_buffer.twist

----------------------------------------------------------------------------
(* Time *)

LEMMA Ages ==
  /\ COMMAND_TIMEOUT \in Nat /\ SAMPLE_DELTA \in Nat /\ MaxPass \in Nat
  /\ CounterSize \in Nat /\ MaxFailures \in Nat
  /\ OldAge \in Nat /\ OldAge = COMMAND_TIMEOUT + SAMPLE_DELTA + 4 * MaxPass
BY TimesAssumption DEF OldAge

LEMMA OlderType ==
  ASSUME NEW age \in 0 .. OldAge
  PROVE  Older(age) \in 0 .. OldAge /\ Older(age) <= age + 1
BY Ages DEF Older

LEMMA OlderStays ==
  ASSUME NEW age \in 0 .. OldAge
  PROVE  Older(age) = age + 1 \/ Older(age) = OldAge
BY Ages DEF Older

LEMMA SinceType ==
  ASSUME NEW time \in 0 .. CounterSize - 1, millis \in 0 .. CounterSize - 1
  PROVE  Since(time) \in 0 .. CounterSize - 1
BY Ages DEF Since

LEMMA SinceNow == ASSUME millis \in Nat PROVE Since(millis) = 0
BY DEF Since

\* One ms later the time since is one more, or the counter has come round.
LEMMA SinceTick ==
  ASSUME NEW time \in 0 .. CounterSize - 1, millis \in 0 .. CounterSize - 1, Tick
  PROVE  Since(time)' = IF Since(time) + 1 = CounterSize THEN 0 ELSE Since(time) + 1
BY Ages DEF Since, Tick

----------------------------------------------------------------------------
(* Types *)

LEMMA InitType == Init => TypeOK
BY TimesAssumption, Ages DEF Init, TypeOK, Data, NoData, Zero, Twist, Call

LEMMA NextStepType ==
  ASSUME TypeOK
  PROVE  NextStep \in [step: {"none", "twist", "flag"}, tries: 0 .. 1]
BY DEF NextStep, Call, TypeOK

LEMMA StepType == TypeOK /\ [Next]_vars => TypeOK'
<1> SUFFICES ASSUME TypeOK, [Next]_vars PROVE TypeOK'
  OBVIOUS
<1>1. CASE updateBuffer
  BY <1>1, Ages DEF updateBuffer, TypeOK, driver
<1>2. CASE command
  <2>1. Consumed \in Data
    BY DEF Consumed, TypeOK, Data, Zero, Twist
  <2>2. goal' \in Twist /\ lastCommandUpdate' \in 0 .. CounterSize - 1
    BY <1>2, <2>1 DEF command, Move, TypeOK, Data
  <2>3. prevCommandTime' \in 0 .. CounterSize - 1
    BY <1>2 DEF command, TypeOK
  <2> QED BY <1>2, <2>1, <2>2, <2>3 DEF command, TypeOK, driver, ages, arrival
<1>3. CASE finalizeWrites
  <2>1. staging_buffer' \in Data
    <3>1. \A b \in TwistBytes :
            Merged(staging_buffer.twist[b], buffer_old.twist[b], buffer.twist[b]) \in 0 .. 255
      BY DEF Merged, TypeOK, Data, Twist
    <3> QED BY <1>3, <3>1 DEF finalizeWrites, Merged, TypeOK, Data, Twist
  <2>2. fate' \in {"arrived", "flagged", "followed", "over", "lost"}
    BY <1>3 DEF finalizeWrites, Stopped, TypeOK
  <2> QED BY <1>3, <2>1, <2>2 DEF finalizeWrites, TypeOK, driver, ages
<1>4. CASE Tick
  <2>1. millis' \in 0 .. CounterSize - 1 /\ pass_age' \in 0 .. MaxPass
    BY <1>4, Ages, TimesAssumption DEF Tick, TypeOK
  <2>2. flag_age' \in 0 .. OldAge /\ command_age' \in 0 .. OldAge
    BY <1>4, OlderType DEF Tick, TypeOK
  <2> QED BY <1>4, <2>1, <2>2 DEF Tick, TypeOK, board, driver, arrival
<1>5. CASE twist
  BY <1>5 DEF twist, Call, TypeOK, board, ages, arrival
<1>6. CASE write_succeeds
  <2>1. staging_buffer' \in Data
    BY <1>6, TwistsAssumption DEF write_succeeds, WriteTwist, WriteFlag, TypeOK, Data
  <2>2. command_age' \in 0 .. OldAge /\ flag_age' \in 0 .. OldAge
    BY <1>6, Ages DEF write_succeeds, WriteTwist, WriteFlag, TypeOK
  <2>3. call' \in [step: {"none", "twist", "flag"}, tries: 0 .. 1]
    BY <1>6, NextStepType DEF write_succeeds, TypeOK
  <2>4. failures' \in 0 .. MaxFailures
    BY <1>6, Ages DEF write_succeeds
  <2>5. sent' \in Twist /\ fate' \in {"arrived", "flagged", "followed", "over", "lost"}
    BY <1>6, TwistsAssumption DEF write_succeeds, WriteTwist, WriteFlag, TypeOK
  <2> QED BY <1>6, <2>1, <2>2, <2>3, <2>4, <2>5 DEF write_succeeds, TypeOK, board
<1>7. CASE write_fails
  <2>1. call' \in [step: {"none", "twist", "flag"}, tries: 0 .. 1]
    BY <1>7, NextStepType DEF write_fails, TypeOK
  <2>2. failures' \in 0 .. MaxFailures
    BY <1>7, Ages DEF write_fails, TypeOK
  <2> QED BY <1>7, <2>1, <2>2 DEF write_fails, TypeOK, board, ages, arrival
<1>8. CASE UNCHANGED vars
  BY <1>8 DEF vars, TypeOK, board, driver, ages, arrival
<1> QED BY <1>1, <1>2, <1>3, <1>4, <1>5, <1>6, <1>7, <1>8 DEF Next

\* The types of the loop's, the driver's and the measured state (main.cpp:147-199,
\* romi32U4_driver.py:50-83).
THEOREM TypeCorrect == Spec => []TypeOK
BY InitType, StepType, PTL DEF Spec

----------------------------------------------------------------------------
(* What the steps change *)

LEMMA SilenceType ==
  ASSUME TypeOK
  PROVE  Silence \in 0 .. CounterSize - 1 /\ SinceMove \in 0 .. CounterSize - 1
BY SinceType DEF TypeOK, Silence, SinceMove

LEMMA Restarted ==
  ASSUME TypeOK, UNCHANGED millis
  PROVE  /\ prevCommandTime' = millis => Silence' = 0
         /\ UNCHANGED prevCommandTime => Silence' = Silence
         /\ lastCommandUpdate' = millis => SinceMove' = 0
         /\ UNCHANGED lastCommandUpdate => SinceMove' = SinceMove
BY Ages DEF Silence, SinceMove, Since, TypeOK

LEMMA Ticked ==
  ASSUME TypeOK, Tick
  PROVE  /\ Silence' = IF Silence + 1 = CounterSize THEN 0 ELSE Silence + 1
         /\ SinceMove' = IF SinceMove + 1 = CounterSize THEN 0 ELSE SinceMove + 1
         /\ pass_age < MaxPass /\ pass_age' = pass_age + 1
         /\ command_age' <= command_age + 1
         /\ flag_age' = flag_age + 1 \/ flag_age' = OldAge
         /\ UNCHANGED <<staging_buffer, buffer, buffer_old, pc, goal, call, failures>>
<1>1. Silence' = IF Silence + 1 = CounterSize THEN 0 ELSE Silence + 1
  BY SinceTick DEF Silence, TypeOK, Since, Tick, board
<1>2. SinceMove' = IF SinceMove + 1 = CounterSize THEN 0 ELSE SinceMove + 1
  BY SinceTick DEF SinceMove, TypeOK, Since, Tick, board
<1>3. command_age' <= command_age + 1
  BY OlderType DEF Tick, TypeOK
<1>4. flag_age' = flag_age + 1 \/ flag_age' = OldAge
  BY OlderStays DEF Tick, TypeOK
<1> QED BY <1>1, <1>2, <1>3, <1>4 DEF Tick, board, driver

\* finalizeWrites, seen as a whole: what the driver has not touched becomes the loop's
\* copy, what the loop has not changed stays, and nothing comes from anywhere else.
LEMMA MergedTwist ==
  ASSUME TypeOK, finalizeWrites
  PROVE  /\ staging_buffer.twist = buffer_old.twist => staging_buffer'.twist = buffer.twist
         /\ buffer.twist = buffer_old.twist => staging_buffer'.twist = staging_buffer.twist
         /\ \A b \in TwistBytes :
              staging_buffer'.twist[b] \in {staging_buffer.twist[b], buffer.twist[b]}
         /\ staging_buffer'.twist \in Twist
         /\ staging_buffer'.new_twist_command =
              IF buffer_old.new_twist_command # buffer.new_twist_command
              THEN buffer.new_twist_command ELSE staging_buffer.new_twist_command
<1>. DEFINE merged == [b \in TwistBytes |->
                        Merged(staging_buffer.twist[b], buffer_old.twist[b], buffer.twist[b])]
<1>1. /\ staging_buffer.twist \in Twist /\ buffer_old.twist \in Twist /\ buffer.twist \in Twist
  BY DEF TypeOK, Data
<1>2. /\ staging_buffer'.twist = merged
      /\ staging_buffer'.new_twist_command =
           IF buffer_old.new_twist_command # buffer.new_twist_command
           THEN buffer.new_twist_command ELSE staging_buffer.new_twist_command
  BY DEF finalizeWrites, Merged
<1>3. \A b \in TwistBytes : merged[b] \in {staging_buffer.twist[b], buffer.twist[b]}
  BY DEF Merged
<1>4. merged \in Twist
  BY <1>1, <1>3 DEF Twist
<1>5. ASSUME staging_buffer.twist = buffer_old.twist PROVE merged = buffer.twist
  <2>1. \A b \in TwistBytes : merged[b] = buffer.twist[b]
    BY <1>5 DEF Merged
  <2>. QED BY <2>1, <1>1, <1>4 DEF Twist
<1>6. ASSUME buffer.twist = buffer_old.twist PROVE merged = staging_buffer.twist
  <2>1. \A b \in TwistBytes : merged[b] = staging_buffer.twist[b]
    BY <1>6 DEF Merged
  <2>. QED BY <2>1, <1>1, <1>4 DEF Twist
<1>. HIDE DEF merged
<1>. QED BY <1>2, <1>3, <1>4, <1>5, <1>6

LEMMA MergedZero ==
  ASSUME TypeOK, finalizeWrites, staging_buffer.twist = Zero, buffer.twist = Zero
  PROVE  staging_buffer'.twist = Zero
<1>1. staging_buffer'.twist \in Twist /\ \A b \in TwistBytes : staging_buffer'.twist[b] = Zero[b]
  BY MergedTwist
<1>. QED BY <1>1 DEF Twist, Zero

\* What the driver does, seen from the loop
LEMMA Written ==
  ASSUME TypeOK, twist \/ write_succeeds \/ write_fails
  PROVE  /\ UNCHANGED <<buffer, buffer_old, pc, prevCommandTime, lastCommandUpdate,
                        goal, millis, pass_age>>
         /\ command_age' = 0 \/ UNCHANGED <<staging_buffer, command_age, flag_age, arrival>>
         /\ \/ UNCHANGED flag_age
            \/ staging_buffer'.new_twist_command
         /\ staging_buffer.new_twist_command => staging_buffer'.new_twist_command
<1>1. CASE twist
  BY <1>1 DEF twist, board, ages
<1>2. CASE write_succeeds
  <2>1. CASE \E v \in Twists : WriteTwist(v)
    BY <1>2, <2>1 DEF write_succeeds, WriteTwist, TypeOK, Data, board
  <2>2. CASE WriteFlag
    BY <1>2, <2>2 DEF write_succeeds, WriteFlag, TypeOK, Data, board
  <2> QED BY <1>2, <2>1, <2>2 DEF write_succeeds
<1>3. CASE write_fails
  BY <1>3 DEF write_fails, board, ages
<1> QED BY <1>1, <1>2, <1>3

----------------------------------------------------------------------------
(* The invariants *)

LEMMA InitInv == Init => IInv
<1> SUFFICES ASSUME Init PROVE IInv
  OBVIOUS
<1>1. TypeOK
  BY InitType
<1>2. Silence = 0 /\ SinceMove = 0
  BY DEF Init, Silence, SinceMove, Since
<1>3. FreshInv
  BY DEF Init, FreshInv, NoData
<1>4. TwistInv
  BY DEF Init, TwistInv, NoData
<1>5. AgeInv
  BY DEF Init, AgeInv, NoData
<1>6. MotorInv
  BY <1>2, Ages, TimesAssumption DEF Init, MotorInv
<1>7. FlagInv
  BY DEF Init, FlagInv
<1> QED BY <1>1, <1>3, <1>4, <1>5, <1>6, <1>7 DEF IInv

LEMMA FreshStep == TypeOK /\ FreshInv /\ [Next]_vars => FreshInv'
<1> SUFFICES ASSUME TypeOK, FreshInv, [Next]_vars PROVE FreshInv'
  OBVIOUS
<1>a. /\ pass_age \in Nat /\ command_age \in Nat /\ pass_age <= MaxPass
      /\ Silence \in Nat /\ MaxPass \in Nat
  BY Ages, SilenceType DEF TypeOK
<1>1. CASE updateBuffer
  BY <1>1, <1>a DEF updateBuffer, FreshInv
<1>2. CASE command
  <2>1. buffer.new_twist_command => Silence' = 0
    BY <1>2, Restarted DEF command
  <2>2. ~buffer'.new_twist_command
    BY <1>2 DEF command, Consumed
  <2> QED BY <1>2, <2>1, <2>2, <1>a DEF command, FreshInv, ages
<1>3. CASE finalizeWrites
  <2>1. staging_buffer'.new_twist_command
          => staging_buffer.new_twist_command /\ ~buffer_old.new_twist_command
    BY <1>3, MergedTwist DEF finalizeWrites, FreshInv, TypeOK, Data
  <2> QED BY <1>3, <2>1, <1>a DEF finalizeWrites, FreshInv, ages
<1>4. CASE Tick
  <2>1. Silence' <= Silence + 1
    BY <1>4, <1>a, Ticked
  <2>2. command_age' \in Nat /\ Silence' \in Nat
    BY StepType, SilenceType, <1>a, <1>4, Ticked, Ages DEF TypeOK, Tick, Older
  <2> QED BY <1>4, <2>1, <2>2, <1>a, Ticked DEF FreshInv
<1>5. CASE twist \/ write_succeeds \/ write_fails
  <2>1. Silence' = Silence
    BY <1>5, Written, Restarted
  <2> QED BY <1>5, <2>1, <1>a, Written DEF FreshInv
<1>6. CASE UNCHANGED vars
  <2>1. Silence' = Silence
    BY <1>6, Restarted DEF vars, board
  <2> QED BY <1>6, <2>1 DEF vars, board, ages, FreshInv
<1> QED BY <1>1, <1>2, <1>3, <1>4, <1>5, <1>6 DEF Next

LEMMA TwistStep == TypeOK /\ FreshInv /\ TwistInv /\ [Next]_vars => TwistInv'
<1> SUFFICES ASSUME TypeOK, FreshInv, TwistInv, [Next]_vars PROVE TwistInv'
  OBVIOUS
<1>a. /\ pass_age \in Nat /\ command_age \in Nat /\ pass_age <= MaxPass
      /\ Silence \in Nat /\ MaxPass \in Nat /\ COMMAND_TIMEOUT \in Nat
      /\ 0 < COMMAND_TIMEOUT
  BY Ages, TimesAssumption, SilenceType DEF TypeOK
<1>1. CASE updateBuffer
  <2>1. Silence' = Silence
    BY <1>1, Restarted DEF updateBuffer
  <2> QED BY <1>1, <2>1, <1>a DEF updateBuffer, TwistInv
<1>2. CASE command
  <2>1. Silence' = IF buffer.new_twist_command THEN 0 ELSE Silence
    BY <1>2, Restarted DEF command
  <2>2. buffer'.twist = Zero \/ (buffer'.twist = buffer.twist /\ Silence' < COMMAND_TIMEOUT)
    BY <1>2, <2>1, <1>a DEF command, Consumed, TimedOut, Silence
  <2> QED BY <1>2, <2>1, <2>2, <1>a DEF command, TwistInv, FreshInv, ages
<1>3. CASE finalizeWrites
  <2>1. Silence' = Silence
    BY <1>3, Restarted DEF finalizeWrites
  <2>2. staging_buffer'.twist # Zero /\ command_age > pass_age
          => buffer.twist # Zero
    BY <1>3, <1>a, MergedTwist DEF finalizeWrites, TwistInv
  <2> QED BY <1>3, <2>1, <2>2, <1>a DEF finalizeWrites, TwistInv, ages
<1>4. CASE Tick
  <2>1. Silence' <= Silence + 1 /\ Silence' \in Nat
    BY <1>4, <1>a, Ticked
  <2>2. command_age' \in Nat
    BY <1>a, <1>4, Ages DEF TypeOK, Tick, Older
  <2> QED BY <1>4, <2>1, <2>2, <1>a, Ticked DEF TwistInv
<1>5. CASE twist \/ write_succeeds \/ write_fails
  <2>1. Silence' = Silence
    BY <1>5, Written, Restarted
  <2> QED BY <1>5, <2>1, <1>a, Written DEF TwistInv
<1>6. CASE UNCHANGED vars
  <2>1. Silence' = Silence
    BY <1>6, Restarted DEF vars, board
  <2> QED BY <1>6, <2>1 DEF vars, board, ages, TwistInv
<1> QED BY <1>1, <1>2, <1>3, <1>4, <1>5, <1>6 DEF Next

LEMMA AgeStep == TypeOK /\ FreshInv /\ TwistInv /\ AgeInv /\ [Next]_vars => AgeInv'
<1> SUFFICES ASSUME TypeOK, FreshInv, TwistInv, AgeInv, [Next]_vars PROVE AgeInv'
  OBVIOUS
<1>a. /\ pass_age \in Nat /\ command_age \in Nat /\ pass_age <= MaxPass
      /\ Silence \in 0 .. CounterSize - 1 /\ MaxPass \in Nat /\ CounterSize \in Nat
      /\ COMMAND_TIMEOUT \in Nat /\ SAMPLE_DELTA \in Nat /\ 0 < SAMPLE_DELTA
      /\ COMMAND_TIMEOUT + SAMPLE_DELTA + 2 * MaxPass < CounterSize
      /\ pc \in {"updateBuffer", "command", "finalizeWrites"}
  BY Ages, TimesAssumption, SilenceType DEF TypeOK
<1>1. CASE updateBuffer
  <2>1. Silence' = Silence
    BY <1>1, Restarted DEF updateBuffer
  <2> QED BY <1>1, <2>1, <1>a DEF updateBuffer, AgeInv
<1>2. CASE command
  <2>1. Silence' = IF buffer.new_twist_command THEN 0 ELSE Silence
    BY <1>2, Restarted DEF command
  <2>2. buffer'.twist # Zero => buffer.twist # Zero
    BY <1>2 DEF command, Consumed
  <2> QED BY <1>2, <2>1, <2>2, <1>a DEF command, AgeInv, FreshInv, ages
<1>3. CASE finalizeWrites
  <2>1. Silence' = Silence
    BY <1>3, Restarted DEF finalizeWrites
  <2>2. staging_buffer'.twist # Zero => staging_buffer.twist # Zero \/ buffer.twist # Zero
    BY <1>3, MergedZero
  <2> QED BY <1>3, <2>1, <2>2, <1>a DEF finalizeWrites, AgeInv, ages
<1>4. CASE Tick
  \* The counter comes round only after a silence in which the twist was stopped.
  <2>1. CASE Silence + 1 = CounterSize
    <3>1. Silence' = 0
      BY <1>4, <2>1, Ticked
    <3>2. staging_buffer.twist # Zero \/ (pc # "updateBuffer" /\ buffer.twist # Zero)
            => command_age <= MaxPass + pass_age
      BY <2>1, <1>a DEF TwistInv
    <3>3. command_age' \in Nat
      BY <1>a, <1>4, Ages DEF TypeOK, Tick, Older
    <3> QED BY <1>4, <3>1, <3>2, <3>3, <1>a, Ticked DEF AgeInv
  <2>2. CASE Silence + 1 # CounterSize
    <3>1. Silence' = Silence + 1
      BY <1>4, <2>2, Ticked
    <3>2. command_age' \in Nat
      BY <1>a, <1>4, Ages DEF TypeOK, Tick, Older
    <3> QED BY <1>4, <3>1, <3>2, <1>a, Ticked DEF AgeInv
  <2> QED BY <2>1, <2>2
<1>5. CASE twist \/ write_succeeds \/ write_fails
  <2>1. Silence' = Silence
    BY <1>5, Written, Restarted
  <2> QED BY <1>5, <2>1, <1>a, Written DEF AgeInv
<1>6. CASE UNCHANGED vars
  <2>1. Silence' = Silence
    BY <1>6, Restarted DEF vars, board
  <2> QED BY <1>6, <2>1 DEF vars, board, ages, AgeInv
<1> QED BY <1>1, <1>2, <1>3, <1>4, <1>5, <1>6 DEF Next

LEMMA MotorStep == TypeOK /\ FreshInv /\ AgeInv /\ MotorInv /\ [Next]_vars => MotorInv'
<1> SUFFICES ASSUME TypeOK, FreshInv, AgeInv, MotorInv, [Next]_vars PROVE MotorInv'
  OBVIOUS
<1>a. /\ pass_age \in Nat /\ command_age \in Nat /\ pass_age <= MaxPass
      /\ SinceMove \in 0 .. CounterSize - 1 /\ Silence \in Nat
      /\ MaxPass \in Nat /\ CounterSize \in Nat
      /\ COMMAND_TIMEOUT \in Nat /\ SAMPLE_DELTA \in Nat
      /\ 0 < SAMPLE_DELTA /\ 0 < COMMAND_TIMEOUT
      /\ COMMAND_TIMEOUT + SAMPLE_DELTA + 2 * MaxPass < CounterSize
  BY Ages, TimesAssumption, SilenceType DEF TypeOK
<1>1. CASE updateBuffer
  <2>1. SinceMove' = SinceMove
    BY <1>1, Restarted DEF updateBuffer
  <2> QED BY <1>1, <2>1, <1>a DEF updateBuffer, MotorInv
<1>2. CASE command
  <2>1. CASE SinceMove >= SAMPLE_DELTA
    <3>1. SinceMove' = 0 /\ goal' = Consumed.twist
      BY <1>2, <2>1, Restarted DEF command, Move, SinceMove
    <3>2. goal' # Zero => command_age <= COMMAND_TIMEOUT - 1 + 2 * MaxPass
      <4>1. goal' # Zero => buffer.twist # Zero /\ ~TimedOut
        BY <3>1 DEF Consumed
      <4>2. ~TimedOut => buffer.new_twist_command \/ Silence < COMMAND_TIMEOUT
        BY <1>a DEF TimedOut, Silence
      <4> QED BY <4>1, <4>2, <1>2, <1>a DEF command, FreshInv, AgeInv
    <3> QED BY <1>2, <3>1, <3>2, <1>a DEF command, MotorInv, ages
  <2>2. CASE ~(SinceMove >= SAMPLE_DELTA)
    <3>1. SinceMove' = SinceMove /\ goal' = goal
      BY <1>2, <2>2, Restarted DEF command, Move, SinceMove
    <3> QED BY <1>2, <2>2, <3>1, <1>a DEF command, MotorInv, ages
  <2> QED BY <2>1, <2>2
<1>3. CASE finalizeWrites
  <2>1. SinceMove' = SinceMove
    BY <1>3, Restarted DEF finalizeWrites
  <2> QED BY <1>3, <2>1, <1>a DEF finalizeWrites, MotorInv, ages
<1>4. CASE Tick
  <2>1. SinceMove' = SinceMove + 1
    BY <1>4, <1>a, Ticked DEF MotorInv
  <2>2. command_age' \in Nat
    BY <1>a, <1>4, Ages DEF TypeOK, Tick, Older
  <2> QED BY <1>4, <2>1, <2>2, <1>a, Ticked DEF MotorInv
<1>5. CASE twist \/ write_succeeds \/ write_fails
  <2>1. SinceMove' = SinceMove
    BY <1>5, Written, Restarted
  <2> QED BY <1>5, <2>1, <1>a, Written DEF MotorInv
<1>6. CASE UNCHANGED vars
  <2>1. SinceMove' = SinceMove
    BY <1>6, Restarted DEF vars, board
  <2> QED BY <1>6, <2>1 DEF vars, board, ages, MotorInv
<1> QED BY <1>1, <1>2, <1>3, <1>4, <1>5, <1>6 DEF Next

LEMMA FlagStep == TypeOK /\ FreshInv /\ FlagInv /\ [Next]_vars => FlagInv'
<1> SUFFICES ASSUME TypeOK, FreshInv, FlagInv, [Next]_vars PROVE FlagInv'
  OBVIOUS
<1>a. /\ pass_age \in Nat /\ flag_age \in Nat /\ pass_age <= MaxPass
      /\ Silence \in Nat /\ MaxPass \in Nat
  BY Ages, SilenceType DEF TypeOK
<1>1. CASE updateBuffer
  <2>1. Silence' = Silence
    BY <1>1, Restarted DEF updateBuffer
  <2> QED BY <1>1, <2>1, <1>a DEF updateBuffer, FlagInv
<1>2. CASE command
  <2>1. Silence' = IF buffer.new_twist_command THEN 0 ELSE Silence
    BY <1>2, Restarted DEF command
  <2> QED BY <1>2, <2>1, <1>a DEF command, FlagInv, ages
<1>3. CASE finalizeWrites
  <2>1. Silence' = Silence
    BY <1>3, Restarted DEF finalizeWrites
  <2>2. ~staging_buffer'.new_twist_command
          => ~staging_buffer.new_twist_command \/ buffer_old.new_twist_command
    BY <1>3, MergedTwist DEF finalizeWrites, FreshInv, TypeOK, Data
  <2> QED BY <1>3, <2>1, <2>2, <1>a DEF finalizeWrites, FlagInv, FreshInv, ages
<1>4. CASE Tick
  <2>1. Silence' <= Silence + 1 /\ Silence' \in Nat
    BY <1>4, <1>a, Ticked
  <2>2. flag_age = OldAge => flag_age' = OldAge
    BY <1>4, Ages DEF Tick, Older
  <2> QED BY <1>4, <2>1, <2>2, <1>a, Ticked, Ages DEF FlagInv
<1>5. CASE twist \/ write_succeeds \/ write_fails
  <2>1. Silence' = Silence
    BY <1>5, Written, Restarted
  <2> QED BY <1>5, <2>1, <1>a, Written DEF FlagInv
<1>6. CASE UNCHANGED vars
  <2>1. Silence' = Silence
    BY <1>6, Restarted DEF vars, board
  <2> QED BY <1>6, <2>1 DEF vars, board, ages, FlagInv
<1> QED BY <1>1, <1>2, <1>3, <1>4, <1>5, <1>6 DEF Next

LEMMA StepInv == IInv /\ [Next]_vars => IInv'
BY StepType, FreshStep, TwistStep, AgeStep, MotorStep, FlagStep DEF IInv

LEMMA Invariance == Spec => []IInv
BY InitInv, StepInv, PTL DEF Spec

----------------------------------------------------------------------------
(* Results *)

\* The robot stops when the driver falls silent (main.cpp:161-170): a command is
\* followed no longer than the timeout, a sampling interval and four passes.
THEOREM StopInTime == Spec => []StopsInTime
<1>1. IInv => StopsInTime
  <2> SUFFICES ASSUME IInv, goal # Zero
               PROVE  command_age <= (COMMAND_TIMEOUT - 1) + (SAMPLE_DELTA - 1) + 4 * MaxPass
    BY DEF StopsInTime
  <2>1. /\ pass_age \in Nat /\ command_age \in Nat /\ SinceMove \in Nat
        /\ pass_age <= MaxPass
    BY Ages, SilenceType DEF IInv, TypeOK
  <2>2. /\ SinceMove <= SAMPLE_DELTA - 1 + MaxPass + pass_age
        /\ command_age <= COMMAND_TIMEOUT - 1 + 2 * MaxPass + SinceMove
    BY DEF IInv, MotorInv
  <2> QED BY <2>1, <2>2, Ages
<1> QED BY <1>1, Invariance, PTL

\* The loop stops nobody too early (main.cpp:162-170), across every wrap of
\* millis(), although the consumed flag is written back over a newer one.
THEOREM WholeTimeout == Spec => TimeoutIsWhole
<1>1. IInv /\ [Next]_vars
        => (command /\ TimedOut /\ ~staging_buffer.new_twist_command
              => flag_age >= COMMAND_TIMEOUT - MaxPass)
  <2> SUFFICES ASSUME IInv, TimedOut, ~staging_buffer.new_twist_command
               PROVE  flag_age >= COMMAND_TIMEOUT - MaxPass
    OBVIOUS
  <2>1. Silence >= COMMAND_TIMEOUT
    BY DEF TimedOut, Silence
  <2>2. Silence <= flag_age + MaxPass \/ flag_age = OldAge
    BY DEF IInv, FlagInv
  <2>3. flag_age \in Nat /\ Silence \in Nat
    BY Ages, SilenceType DEF IInv, TypeOK
  <2> QED BY <2>1, <2>2, <2>3, Ages
<1>2. IInv /\ [Next]_vars
        => [command /\ TimedOut /\ ~staging_buffer.new_twist_command
              => flag_age >= COMMAND_TIMEOUT - MaxPass]_vars
  BY <1>1
<1> QED BY <1>2, Invariance, PTL DEF Spec, TimeoutIsWhole

----------------------------------------------------------------------------
(* A fresh command is followed *)

LEMMA FollowInit == Init => FollowInv
<1> SUFFICES ASSUME Init PROVE FollowInv
  OBVIOUS
<1>1. /\ pc = "updateBuffer" /\ goal = Zero /\ staging_buffer.twist = Zero
      /\ sent = Zero /\ fate = "arrived"
  BY DEF Init, NoData
<1> QED BY <1>1 DEF FollowInv

\* The look at a current command by a pass that has its flag from before or has read
\* it all: it does not stop it.
LEMMA NotTimedOut ==
  ASSUME IInv, FollowInv, command, Current, pass_age < command_age \/ fate = "followed"
  PROVE  ~TimedOut
<1>1. /\ command_age \in Nat /\ flag_age \in Nat /\ pass_age \in Nat /\ Silence \in Nat
      /\ MaxPass \in Nat /\ COMMAND_TIMEOUT \in Nat /\ pass_age <= MaxPass
  BY Ages, SilenceType DEF IInv, TypeOK
<1>2. pc = "command" /\ buffer = buffer_old
  BY DEF command, IInv, FreshInv
<1> SUFFICES ASSUME ~buffer.new_twist_command PROVE Silence < COMMAND_TIMEOUT
  BY <1>1 DEF TimedOut, Silence
<1>3. ~staging_buffer.new_twist_command
  BY <1>1, <1>2 DEF IInv, FreshInv, FollowInv
<1>4. Silence <= flag_age + MaxPass \/ flag_age = OldAge
  BY <1>3 DEF IInv, FlagInv
<1> QED BY <1>4, <1>1, Ages DEF Current

\* A pass that has read all of it gives the controllers the twist that stands in the
\* shared data.
LEMMA CurrentKept ==
  ASSUME IInv, FollowInv, command, Current, pass_age < command_age
  PROVE  Consumed.twist = staging_buffer.twist
<1>1. /\ command_age \in Nat /\ pass_age \in Nat
  BY DEF IInv, TypeOK
<1>2. pc = "command" /\ buffer = buffer_old
  BY DEF command, IInv, FreshInv
<1>3. Consumed.twist = buffer.twist
  BY NotTimedOut DEF Consumed
<1>4. staging_buffer.twist = buffer_old.twist
  BY <1>1, <1>2 DEF IInv, TwistInv
<1> QED BY <1>2, <1>3, <1>4

LEMMA FollowStep == IInv /\ FollowInv /\ [Next]_vars => FollowInv'
<1> SUFFICES ASSUME IInv, FollowInv, [Next]_vars PROVE FollowInv'
  OBVIOUS
<1>a. /\ command_age \in Nat /\ flag_age \in Nat /\ pass_age \in Nat /\ SinceMove \in Nat
      /\ MaxPass \in Nat /\ COMMAND_TIMEOUT \in Nat /\ SAMPLE_DELTA \in Nat
      /\ pass_age <= MaxPass /\ TypeOK
  BY Ages, SilenceType DEF IInv, TypeOK
<1>1. CASE updateBuffer
  <2>1. SinceMove' = SinceMove
    BY <1>1, <1>a, Restarted DEF updateBuffer
  <2>2. /\ UNCHANGED <<staging_buffer, goal, command_age, flag_age, sent>>
        /\ buffer_old' = staging_buffer /\ pc' = "command"
        /\ fate' = IF fate = "flagged" THEN "followed" ELSE fate
    BY <1>1 DEF updateBuffer
  <2> QED BY <2>1, <2>2 DEF FollowInv, Current
<1>2. CASE command
  <2>1. /\ UNCHANGED <<staging_buffer, buffer_old, ages, arrival>>
        /\ pc = "command" /\ pc' = "finalizeWrites"
    BY <1>2 DEF command
  <2>2. Current' /\ (pass_age' < command_age' \/ fate' = "followed")
          => buffer'.twist = buffer_old'.twist
    <3>1. buffer = buffer_old
      BY <2>1 DEF IInv, FreshInv
    <3>2. ~TimedOut => buffer'.twist = buffer.twist
      BY <1>2 DEF command, Consumed
    <3> QED BY <1>2, <2>1, <3>1, <3>2, NotTimedOut DEF Current, ages, arrival
  <2>3. Current' /\ SinceMove' + MaxPass < command_age' => goal' = staging_buffer'.twist
    <3>1. CASE SinceMove >= SAMPLE_DELTA
      <4>1. SinceMove' = 0 /\ goal' = Consumed.twist
        BY <1>2, <3>1, <1>a, Restarted DEF command, Move, SinceMove
      <4>2. MaxPass < command_age => pass_age < command_age
        BY <1>a
      <4> QED BY <1>2, <2>1, <4>1, <4>2, <1>a, CurrentKept DEF Current, ages
    <3>2. CASE ~(SinceMove >= SAMPLE_DELTA)
      <4>1. SinceMove' = SinceMove /\ goal' = goal
        BY <1>2, <3>2, <1>a, Restarted DEF command, Move, SinceMove
      <4> QED BY <2>1, <4>1 DEF FollowInv, Current, ages
    <3> QED BY <3>1, <3>2
  <2> QED BY <2>1, <2>2, <2>3 DEF FollowInv, Current, ages, arrival
<1>3. CASE finalizeWrites
  <2>1. SinceMove' = SinceMove
    BY <1>3, <1>a, Restarted DEF finalizeWrites
  <2>2. /\ UNCHANGED <<goal, command_age, flag_age, sent>> /\ pc = "finalizeWrites"
        /\ pc' = "updateBuffer" /\ fate' = Stopped
    BY <1>3 DEF finalizeWrites, ages
  <2>3. buffer.twist = buffer_old.twist
          => staging_buffer'.twist = staging_buffer.twist /\ fate' = fate
    BY <1>3, <1>a, <2>2, MergedTwist DEF Stopped
  <2>4. Current /\ SinceMove + MaxPass < command_age => buffer.twist = buffer_old.twist
    BY <1>a, <2>2 DEF FollowInv
  <2>5. buffer.twist # buffer_old.twist
          => /\ fate' \in {"over", "lost"}
             /\ fate' = "over" => fate \in {"followed", "over"}
    BY <2>2 DEF Stopped
  <2>6. Current /\ fate' = "over" => FALSE
    BY <2>2, <2>3, <2>5 DEF FollowInv
  <2>7. fate' \in {"arrived", "flagged", "followed"} => staging_buffer'.twist = sent'
    BY <2>2, <2>3, <2>5 DEF FollowInv
  <2>8. Current' <=> Current
    BY <2>2 DEF Current
  <2>9. Current /\ SinceMove + MaxPass < command_age => goal = staging_buffer'.twist
    BY <2>3, <2>4 DEF FollowInv
  <2> QED BY <2>1, <2>2, <2>6, <2>7, <2>8, <2>9 DEF FollowInv
<1>4. CASE Tick
  <2>1. /\ SinceMove' = SinceMove + 1 /\ pass_age' = pass_age + 1
        /\ UNCHANGED <<staging_buffer, buffer, buffer_old, pc, goal>>
    BY <1>4, <1>a, Ticked, Ages, TimesAssumption DEF IInv, MotorInv
  <2>2. Current' => Current /\ command_age' = command_age + 1
    <3>1. /\ command_age' = IF command_age < OldAge THEN command_age + 1 ELSE command_age
          /\ flag_age' = IF flag_age < OldAge THEN flag_age + 1 ELSE flag_age
      BY <1>4 DEF Tick, Older
    <3>2. command_age <= OldAge /\ flag_age <= OldAge
      BY Ages DEF IInv, TypeOK
    <3> QED BY <3>1, <3>2, <1>a, Ages DEF Current
  <2>3. UNCHANGED <<sent, fate>>
    BY <1>4 DEF Tick, arrival
  <2> QED BY <2>1, <2>2, <2>3, <1>a DEF FollowInv
<1>5. CASE twist \/ write_succeeds \/ write_fails
  <2>1. SinceMove' = SinceMove /\ SinceMove' \in Nat
    BY <1>5, <1>a, Written, Restarted
  <2>2. CASE write_succeeds
    <3>1. pass_age' \in Nat /\ UNCHANGED <<pc, buffer, buffer_old>>
      BY <1>5, <1>a, Written
    <3>2. CASE \E v \in Twists : WriteTwist(v)
      <4>1. /\ staging_buffer'.twist = sent' /\ fate' = "arrived" /\ command_age' = 0
        BY <3>2, <1>a DEF WriteTwist, TypeOK, Data
      <4> QED BY <2>1, <3>1, <4>1, <1>a DEF FollowInv
    <3>3. CASE WriteFlag
      <4>1. /\ staging_buffer'.twist = staging_buffer.twist /\ sent' = sent /\ command_age' = 0
            /\ fate' = IF fate \in {"over", "lost"} THEN "lost" ELSE "flagged"
        BY <3>3, <1>a DEF WriteFlag, TypeOK, Data
      <4>2. fate \notin {"over", "lost"} => fate \in {"arrived", "flagged", "followed"}
        BY <1>a DEF TypeOK
      <4> QED BY <2>1, <3>1, <4>1, <4>2, <1>a DEF FollowInv
    <3> QED BY <2>2, <3>2, <3>3 DEF write_succeeds
  <2>3. CASE twist \/ write_fails
    <3>1. UNCHANGED <<staging_buffer, command_age, flag_age, sent, fate>>
      BY <2>3 DEF twist, write_fails, ages, arrival
    <3> QED BY <2>1, <3>1, <1>5, <1>a, Written DEF FollowInv, Current
  <2> QED BY <1>5, <2>2, <2>3
<1>6. CASE UNCHANGED vars
  <2>1. SinceMove' = SinceMove
    BY <1>6, <1>a, Restarted DEF vars, board
  <2> QED BY <1>6, <2>1 DEF vars, board, ages, arrival, FollowInv, Current
<1> QED BY <1>1, <1>2, <1>3, <1>4, <1>5, <1>6 DEF Next

\* A complete command that no pass has stopped which began before its flag was there
\* is followed (romi32U4_driver.py:80, main.cpp:157-199): from a sampling interval and
\* three passes after its flag until the timeout it is the controllers' goal, as sent.
THEOREM FreshFollowed == Spec => []FreshTwistIsFollowed
<1>1. IInv /\ FollowInv => FreshTwistIsFollowed
  <2> SUFFICES ASSUME IInv, FollowInv, Fresh, fate # "lost" PROVE goal = sent
    BY DEF FreshTwistIsFollowed
  <2>1. /\ SinceMove <= SAMPLE_DELTA - 1 + MaxPass + pass_age
        /\ Current /\ SAMPLE_DELTA + 3 * MaxPass <= flag_age /\ command_age = flag_age
    BY DEF IInv, MotorInv, Current, Fresh
  <2>2. /\ command_age \in Nat /\ pass_age \in Nat /\ SinceMove \in Nat
        /\ pass_age <= MaxPass
    BY Ages, SilenceType DEF IInv, TypeOK
  <2>3. SinceMove + MaxPass < command_age
    BY <2>1, <2>2, Ages
  <2>4. fate \in {"arrived", "flagged", "followed"}
    BY <2>1 DEF IInv, TypeOK, FollowInv
  <2> QED BY <2>1, <2>3, <2>4 DEF FollowInv
<1> QED BY <1>1, FollowInit, FollowStep, Invariance, PTL DEF Spec

----------------------------------------------------------------------------
(* What the two sides leave of a twist that both write *)

LEMMA BytesStep ==
  IInv /\ TwistIsNewOrZero /\ [Next]_vars => TwistIsNewOrZero'
<1> SUFFICES ASSUME IInv, TwistIsNewOrZero, [Next]_vars, NEW b \in TwistBytes
             PROVE  (staging_buffer.twist[b] \in {sent[b], 0})'
  BY DEF TwistIsNewOrZero
<1>a. staging_buffer.twist[b] \in {sent[b], 0} /\ TypeOK
  BY DEF TwistIsNewOrZero, IInv
<1>1. CASE updateBuffer \/ command \/ Tick \/ twist \/ write_fails \/ UNCHANGED vars
  <2>1. UNCHANGED <<staging_buffer, sent>>
    BY <1>1 DEF updateBuffer, command, Tick, twist, write_fails, vars, arrival
  <2> QED BY <2>1, <1>a
<1>2. CASE finalizeWrites
  <2>1. sent' = sent /\ pc = "finalizeWrites"
    BY <1>2 DEF finalizeWrites
  <2>2. CASE buffer.twist = buffer_old.twist
    BY <1>a, <1>2, <2>1, <2>2, MergedTwist
  <2>3. CASE buffer.twist = Zero
    <3>1. staging_buffer'.twist[b] \in {staging_buffer.twist[b], 0}
      BY <1>a, <1>2, <2>3, MergedTwist DEF Zero
    <3> QED BY <1>a, <2>1, <3>1
  <2> QED BY <2>1, <2>2, <2>3 DEF IInv, TwistInv
<1>3. CASE write_succeeds
  <2>1. \/ staging_buffer'.twist = sent'
        \/ staging_buffer'.twist = staging_buffer.twist /\ sent' = sent
    BY <1>3, <1>a DEF write_succeeds, WriteTwist, WriteFlag, TypeOK, Data
  <2> QED BY <2>1, <1>a
<1> QED BY <1>1, <1>2, <1>3 DEF Next

\* Whatever the loop writes back over a twist that has just arrived (main.cpp:140-145,
\* PololuRPiSlave.h:89-97), each of its bytes is the new one or zero.
THEOREM NewOrZero == Spec => []TwistIsNewOrZero
<1>1. Init => TwistIsNewOrZero
  BY DEF Init, TwistIsNewOrZero, NoData
<1> QED BY <1>1, BytesStep, Invariance, PTL DEF Spec
=============================================================================
