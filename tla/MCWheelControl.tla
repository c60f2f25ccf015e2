---------------------------- MODULE MCWheelControl ----------------------------
(* Turning on the spot and stopping, of WheelControl: the wheels run in       *)
(* opposite directions, so both signs of every quantity occur.                *)
EXTENDS WheelControl

MCTwists == {Stop, [linear |-> 0, angular |-> 110]}
=============================================================================
