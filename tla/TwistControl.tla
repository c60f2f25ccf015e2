---------------------------- MODULE TwistControl ----------------------------
(***************************************************************************)
(* A twist command of the old robot on its way from the driver of the      *)
(* onboard computer (romi32U4_driver.py) over I2C into the control loop    *)
(* (main.cpp).  The shared data are those of SharedBuffer, reduced to the  *)
(* command: the driver writes the two floats of a twist, then a flag that  *)
(* says it is fresh; the loop stops the robot when no fresh one has come   *)
(* for a while.  What the loop has changed is written back byte by byte,   *)
(* so a twist is the function of its bytes.                                *)
(***************************************************************************)
EXTENDS Integers

CONSTANTS
  TwistBytes,       \* the bytes of twist_linear_x and twist_angle_z
  Twists,           \* the commands
  COMMAND_TIMEOUT,  \* ms without a fresh command until the robot stops
  SAMPLE_DELTA,     \* ms between two settings of the motors
  CounterSize,      \* values of millis(), which wraps
  MaxPass,          \* ms from one pass of the loop to the next
  MaxFailures       \* bus errors in a row

Twist == [TwistBytes -> 0 .. 255]

ASSUME TwistsAssumption == Twists \subseteq Twist
ASSUME TimesAssumption ==
  /\ COMMAND_TIMEOUT \in Nat /\ SAMPLE_DELTA \in Nat /\ MaxPass \in Nat
  /\ MaxFailures \in Nat /\ CounterSize \in Nat
  /\ 0 < SAMPLE_DELTA /\ 0 < COMMAND_TIMEOUT
  /\ COMMAND_TIMEOUT + SAMPLE_DELTA + 2 * MaxPass < CounterSize

VARIABLES
  \* the slave's buffers and the control loop
  staging_buffer, buffer, buffer_old,
  pc,                  \* the next thing the loop does
  prevCommandTime, lastCommandUpdate,
  goal,                \* the twist that the motors' controllers were last given
  \* time
  millis,
  \* the driver: the call of twist() under way and the bus
  call, failures,
  \* what the properties measure: true time since the pass began, since the last
  \* flag and since the last part of a command arrived; the twist that arrived
  \* last and what has become of it
  pass_age, flag_age, command_age, sent, fate

board == <<buffer, buffer_old, pc, prevCommandTime, lastCommandUpdate, goal>>
driver == <<call, failures>>
ages == <<pass_age, flag_age, command_age>>
arrival == <<sent, fate>>
vars == <<staging_buffer, board, millis, driver, ages, arrival>>

Zero == [b \in TwistBytes |-> 0]
Data == [new_twist_command: BOOLEAN, twist: Twist]
NoData == [new_twist_command |-> FALSE, twist |-> Zero]

\* No older age makes a difference.
OldAge == COMMAND_TIMEOUT + SAMPLE_DELTA + 4 * MaxPass
Older(age) == IF age < OldAge THEN age + 1 ELSE age

Since(time) == IF time <= millis THEN millis - time ELSE millis - time + CounterSize

Init ==
  /\ staging_buffer = NoData /\ buffer = NoData /\ buffer_old = NoData
  /\ pc = "updateBuffer"
  /\ prevCommandTime = 0 /\ lastCommandUpdate = 0
  /\ goal = Zero
  /\ millis = 0
  /\ call = [step |-> "none", tries |-> 0] /\ failures = 0
  /\ pass_age = 0 /\ flag_age = OldAge /\ command_age = OldAge
  /\ sent = Zero /\ fate = "arrived"

----------------------------------------------------------------------------
(* The control loop *)

updateBuffer ==
  /\ pc = "updateBuffer"
  /\ buffer' = staging_buffer /\ buffer_old' = staging_buffer
  /\ pc' = "command"
  /\ pass_age' = 0
  /\ fate' = IF fate = "flagged" THEN "followed" ELSE fate
  /\ UNCHANGED <<staging_buffer, prevCommandTime, lastCommandUpdate, goal,
                 millis, driver, flag_age, command_age, sent>>

\* Mutant: the timeout is compared with > instead of >=.
TimedOutLate == ~buffer.new_twist_command /\ Since(prevCommandTime) > COMMAND_TIMEOUT

TimedOut == ~buffer.new_twist_command /\ Since(prevCommandTime) >= COMMAND_TIMEOUT

\* The flag is consumed, or the command is stopped when it is too old.
Consumed ==
  [new_twist_command |-> FALSE, twist |-> IF TimedOut THEN Zero ELSE buffer.twist]

\* move() gives the controllers their goal, but not in every pass.
Move == IF Since(lastCommandUpdate) >= SAMPLE_DELTA
        THEN goal' = Consumed.twist /\ lastCommandUpdate' = millis
        ELSE UNCHANGED <<goal, lastCommandUpdate>>

\* Mutant: a fresh command does not restart the timeout.
command_without_reset ==
  /\ pc = "command"
  /\ buffer' = Consumed
  /\ Move
  /\ pc' = "finalizeWrites"
  /\ UNCHANGED <<staging_buffer, buffer_old, prevCommandTime, millis, driver, ages, arrival>>

command ==
  /\ pc = "command"
  /\ prevCommandTime' = IF buffer.new_twist_command THEN millis ELSE prevCommandTime
  /\ buffer' = Consumed
  /\ Move
  /\ pc' = "finalizeWrites"
  /\ UNCHANGED <<staging_buffer, buffer_old, millis, driver, ages, arrival>>

\* What becomes of the last twist when stop() writes back: one that is flagged is
\* "over" when its pass has seen the flag, and otherwise "lost".
Stopped == IF buffer.twist = buffer_old.twist THEN fate
           ELSE IF fate \in {"followed", "over"} THEN "over" ELSE "lost"

\* Mutant: everything is written back.
finalizeEverything ==
  /\ pc = "finalizeWrites"
  /\ staging_buffer' = buffer
  /\ pc' = "updateBuffer"
  /\ fate' = Stopped
  /\ UNCHANGED <<buffer, buffer_old, prevCommandTime, lastCommandUpdate, goal,
                 millis, driver, ages, sent>>

\* Only the bytes that the loop has changed are written back.
Merged(staged, old, new) == IF old # new THEN new ELSE staged

finalizeWrites ==
  /\ pc = "finalizeWrites"
  /\ staging_buffer' =
       [new_twist_command |-> Merged(staging_buffer.new_twist_command,
                                     buffer_old.new_twist_command, buffer.new_twist_command),
        twist |-> [b \in TwistBytes |->
                     Merged(staging_buffer.twist[b], buffer_old.twist[b], buffer.twist[b])]]
  /\ pc' = "updateBuffer"
  /\ fate' = Stopped
  /\ UNCHANGED <<buffer, buffer_old, prevCommandTime, lastCommandUpdate, goal,
                 millis, driver, ages, sent>>

Tick ==
  /\ pass_age < MaxPass
  /\ millis' = IF millis + 1 = CounterSize THEN 0 ELSE millis + 1
  /\ pass_age' = pass_age + 1
  /\ flag_age' = Older(flag_age) /\ command_age' = Older(command_age)
  /\ UNCHANGED <<staging_buffer, board, driver, arrival>>

----------------------------------------------------------------------------
(* The driver: twist() writes the twist, then the flag, each at most twice.  Which *)
(* twist makes no difference before it is written.                                *)

Call(step) == [step |-> step, tries |-> 0]

twist ==
  /\ call.step = "none"
  /\ call' = Call("twist")
  /\ UNCHANGED <<staging_buffer, board, millis, failures, ages, arrival>>

\* write_pack goes on to the next write, whether this one has succeeded or not.
NextStep == Call(IF call.step = "twist" THEN "flag" ELSE "none")

WriteTwist(v) ==
  /\ call.step = "twist"
  /\ staging_buffer' = [staging_buffer EXCEPT !.twist = v]
  /\ command_age' = 0
  /\ sent' = v /\ fate' = "arrived"
  /\ UNCHANGED flag_age

WriteFlag ==
  /\ call.step = "flag"
  /\ staging_buffer' = [staging_buffer EXCEPT !.new_twist_command = TRUE]
  /\ command_age' = 0 /\ flag_age' = 0
  /\ fate' = IF fate \in {"over", "lost"} THEN "lost" ELSE "flagged"
  /\ UNCHANGED sent

write_succeeds ==
  /\ (\E v \in Twists : WriteTwist(v)) \/ WriteFlag
  /\ call' = NextStep
  /\ failures' = 0
  /\ UNCHANGED <<board, millis, pass_age>>

\* The slave does not acknowledge: IOError, and nothing is written.
write_fails ==
  /\ call.step # "none" /\ failures < MaxFailures
  /\ failures' = failures + 1
  /\ call' = IF call.tries = 0 THEN [call EXCEPT !.tries = 1] ELSE NextStep
  /\ UNCHANGED <<staging_buffer, board, millis, ages, arrival>>

Next ==
  \/ updateBuffer \/ command \/ finalizeWrites
  \/ Tick
  \/ twist \/ write_succeeds \/ write_fails

Spec == Init /\ [][Next]_vars

----------------------------------------------------------------------------
(* Properties *)

\* The types of the loop's, the driver's and the measured state.
TypeOK ==
  /\ staging_buffer \in Data /\ buffer \in Data /\ buffer_old \in Data
  /\ pc \in {"updateBuffer", "command", "finalizeWrites"}
  /\ prevCommandTime \in 0 .. CounterSize - 1
  /\ lastCommandUpdate \in 0 .. CounterSize - 1
  /\ goal \in Twist
  /\ millis \in 0 .. CounterSize - 1
  /\ call \in [step: {"none", "twist", "flag"}, tries: 0 .. 1]
  /\ failures \in 0 .. MaxFailures
  /\ pass_age \in 0 .. MaxPass
  /\ flag_age \in 0 .. OldAge /\ command_age \in 0 .. OldAge
  /\ sent \in Twist
  /\ fate \in {"arrived", "flagged", "followed", "over", "lost"}

\* The robot stops when the driver falls silent (main.cpp:161): however flags were
\* lost or overwritten, the controllers' goal is a motion no longer than this after
\* the last part of a command has arrived: a pass until the loop takes it up, one
\* until it looks at it, less than the timeout and a pass until it stops it, and less
\* than a sampling interval and a pass until it gives the controllers their goal.
StopsInTime ==
  goal # Zero =>
    command_age <= (COMMAND_TIMEOUT - 1) + (SAMPLE_DELTA - 1) + 4 * MaxPass

\* A complete command has had the time to become the controllers' goal, and has not
\* timed out.
Fresh ==
  /\ command_age = flag_age /\ call.step # "flag"
  /\ SAMPLE_DELTA + 3 * MaxPass <= flag_age /\ flag_age < COMMAND_TIMEOUT - MaxPass

\* "Sets a new Twist command for the robot to follow" (romi32U4_driver.py:80).
CommandIsFollowed == Fresh => goal = sent

\* A command is lost in this way only: the loop stops the one before it in a pass
\* that began before the new one's flag was there, and writes the zeros over the new
\* one.  Any other command that the driver has sent is followed until its timeout.
FreshTwistIsFollowed == Fresh /\ fate # "lost" => goal = sent

\* The loop does not stop a command too early: writing back a consumed flag over
\* a newer one (main.cpp:167) costs that one at most a pass.
TimeoutIsWhole ==
  [][command /\ TimedOut /\ ~staging_buffer.new_twist_command
       => flag_age >= COMMAND_TIMEOUT - MaxPass]_vars

\* Loop and driver write the twist simultaneously, for which PololuRPiSlave.h:34
\* promises nothing: still each byte is that of the command that arrived last, or
\* zero, and never that of an older one.
TwistIsNewOrZero ==
  \A b \in TwistBytes : staging_buffer.twist[b] \in {sent[b], 0}
=============================================================================
