---------------------------- MODULE MCTwistControl ----------------------------
(***************************************************************************)
(* Instances of TwistControl: a byte of each float, and two commands that  *)
(* move the robot and have the first byte in common.                       *)
(***************************************************************************)
EXTENDS TwistControl

MCTwists == {[linear |-> 1, angular |-> 0], [linear |-> 1, angular |-> 1]}
===============================================================================
