----------------------------- MODULE MCRomiNode -----------------------------
(***************************************************************************)
(* Instances of RomiNode: a battery voltage of one byte, a pose and a      *)
(* twist of two.                                                           *)
(***************************************************************************)
EXTENDS RomiNode

MCBattery == [at |-> 0, len |-> 1, values |-> {<<0>>, <<1>>}]
MCPose == [at |-> 1, len |-> 2, values |-> {<<0, 0>>, <<1, 2>>}]
MCTwist == [at |-> 3, len |-> 2, values |-> {<<0, 0>>, <<2, 1>>}]
MCFields == {MCBattery, MCPose, MCTwist}
MCCommands == {[at |-> 3, data |-> <<2, 1>>]}
MCWrites == MCCommands \union {IndexOf(MCBattery), IndexOf(MCPose)}
MCUserWrites == {[at |-> 0, data |-> <<1>>], [at |-> 1, data |-> <<1, 2>>],
                 [at |-> 1, data |-> <<0, 0>>]}
MCValues == 0 .. 2
=============================================================================
