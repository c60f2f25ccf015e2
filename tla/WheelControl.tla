---------------------------- MODULE WheelControl ----------------------------
(***************************************************************************)
(* How the old robot's wheels follow a twist: move() in main.cpp with      *)
(* Kinematics.cpp and PID.cpp, sample by sample.  Speeds are in rpm, and   *)
(* the gains in hundredths, as integers.  The wheels turn freely and are   *)
(* modelled after the measurement that test_motor_control.cpp:34 quotes: a *)
(* motor needs 20 to start and 1.5 more for each rpm.  Odometry shows that *)
(* what is measured is the speed.  The velocities that move() sends back   *)
(* to the node are left out: nothing here depends on them.                 *)
(***************************************************************************)
EXTENDS Integers

CONSTANTS
  Twists,        \* the commands, [linear |-> rpm, angular |-> rpm of the right wheel]
  MAX_RPM,
  Kp, KiDt,      \* the gains, in hundredths; the integral one per sample
  Friction,      \* the smallest setting that turns a wheel is one more
  Creep          \* rpm up to which a wheel counts as standing

Stop == [linear |-> 0, angular |-> 0]

Wheels == {"left", "right"}

VARIABLES
  twist,      \* slave.buffer.twist_linear_x and twist_angle_z
  integral,   \* of each wheel's PID
  speed,      \* the settings of the motors
  rpm,        \* how fast the wheels turn
  unheeded    \* no sample has been taken since the command

vars == <<twist, integral, speed, rpm, unheeded>>

----------------------------------------------------------------------------
(* Arithmetic *)

Abs(n) == IF n < 0 THEN -n ELSE n
\* The quotient, truncated towards zero, as a float that becomes an int
Quotient(n, d) == IF n < 0 THEN -((-n) \div d) ELSE n \div d
constrain(n, low, high) == IF n < low THEN low ELSE IF n > high THEN high ELSE n

\* A twist in wheel speeds; the rotation is counterclockwise.
rpmForMotion(t) ==
  [w \in Wheels |-> IF w = "left" THEN t.linear - t.angular ELSE t.linear + t.angular]

\* Neither limited nor reset
Integral(w, goal) == integral[w] + (goal - rpm[w])

\* PID::calculate, and the conversion to the motors' int
calculate(w, goal) ==
  constrain(Quotient(Kp * (goal - rpm[w]) + KiDt * Integral(w, goal), 100), -MAX_RPM, MAX_RPM)

\* What a motor makes of its setting
Turning(s) == IF Abs(s) <= Friction THEN 0
              ELSE Quotient(2 * (IF s > 0 THEN s - Friction ELSE s + Friction), 3)

----------------------------------------------------------------------------

Init ==
  /\ twist = Stop
  /\ integral = [w \in Wheels |-> 0] /\ speed = [w \in Wheels |-> 0]
  /\ rpm = [w \in Wheels |-> 0] /\ unheeded = FALSE

\* A new command, or stop()
Command(t) ==
  /\ t # twist
  /\ twist' = t /\ unheeded' = TRUE
  /\ UNCHANGED <<integral, speed, rpm>>

\* A sample: both motors are set to what their controllers say, and the wheels
\* follow them until the next one.
move ==
  LET goal == rpmForMotion(twist) IN
  /\ integral' = [w \in Wheels |-> Integral(w, goal[w])]
  /\ speed' = [w \in Wheels |-> calculate(w, goal[w])]
  /\ rpm' = [w \in Wheels |-> Turning(speed'[w])]
  /\ unheeded' = FALSE
  /\ UNCHANGED twist

Next == (\E t \in Twists : Command(t)) \/ move

\* The loop runs for ever.
Spec == Init /\ [][Next]_vars /\ WF_vars(move)

----------------------------------------------------------------------------
(* Properties *)

\* The motors go on driving a wheel the way it turns, at more than a creep.
GoesOnDriving(w) ==
  \/ rpm[w] > Creep /\ rpm'[w] > Creep
  \/ rpm[w] < -Creep /\ rpm'[w] < -Creep

\* main.cpp:142, of stop(): "next move() command call will stop motors".  At the
\* least it does not drive a wheel on.
NextMoveStops ==
  [][move /\ unheeded /\ twist = Stop => \A w \in Wheels : ~GoesOnDriving(w)]_vars
=============================================================================
