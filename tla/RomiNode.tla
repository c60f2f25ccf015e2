------------------------------ MODULE RomiNode ------------------------------
(***************************************************************************)
(* The ROS node of the old robot (node.py) on the bus: one thread polls    *)
(* the robot's state, another writes the commands it gets, both through    *)
(* romi32U4_driver.py.  The slave is a SharedBuffer, as RPiSlave shows,    *)
(* and its program assigns what it measures.  The kernel keeps two         *)
(* transactions on the bus apart; a reading takes several of them.         *)
(***************************************************************************)
EXTENDS SharedBuffer

CONSTANTS
  Battery, Pose,   \* the variables read: members of Fields
  Commands         \* the writes of cmd_vel_callback

ASSUME ReadingsAssumption == Battery \in Fields /\ Pose \in Fields
ASSUME CommandsAssumption == Commands \subseteq Writes

Unset == << >>

VARIABLES
  polling,      \* what the polling thread does: "battery", "pose", "publish", or "ended"
  selected,     \* it has written the index of what it reads
  got,          \* the bytes it has read since
  battery_mv, pose_twist,   \* attributes of Brainstem, unset at first
  sender,       \* the thread whose write is on the bus
  expected,     \* the bytes of the variable being read as of the index write
  moved         \* a command has been written since: the slave's index is another

node_vars == <<polling, selected, got, battery_mv, pose_twist, sender, expected, moved>>
all_vars == <<vars, node_vars>>

IndexOf(f) == [at |-> f.at, data |-> << >>]
Slice(m, f) == [i \in 1 .. f.len |-> m[f.at + i - 1]]
Reading == IF polling = "battery" THEN Battery ELSE Pose

NodeInit ==
  /\ Init
  /\ polling = "battery" /\ selected = FALSE /\ got = << >>
  /\ battery_mv = Unset /\ pose_twist = Unset
  /\ sender = "none" /\ expected = << >> /\ moved = FALSE

\* read_unpack: the index, written as a transaction of its own
write_index ==
  /\ polling \in {"battery", "pose"} /\ ~selected
  /\ Begin(IndexOf(Reading))
  /\ sender' = "poll"
  /\ expected' = Slice(mem, Reading)
  /\ UNCHANGED <<polling, selected, got, battery_mv, pose_twist, moved>>

index_written ==
  /\ sender = "poll"
  /\ Apply
  /\ sender' = "none" /\ selected' = TRUE /\ moved' = FALSE
  /\ UNCHANGED <<polling, got, battery_mv, pose_twist, expected>>

\* read_unpack: one byte
read_byte ==
  /\ selected /\ Len(got) < Reading.len
  /\ Read
  /\ got' = Append(got, out')
  /\ UNCHANGED <<polling, selected, battery_mv, pose_twist, sender, expected, moved>>

\* read_romi_state: the reading is complete.
read_done ==
  /\ selected /\ Len(got) = Reading.len
  /\ \/ /\ polling = "battery" /\ polling' = "pose"
        /\ battery_mv' = got /\ UNCHANGED pose_twist
     \/ /\ polling = "pose" /\ polling' = "publish"
        /\ pose_twist' = got /\ UNCHANGED battery_mv
  /\ selected' = FALSE /\ got' = << >>
  /\ UNCHANGED <<vars, sender, expected, moved>>

\* Mutant: the reading is tried again from where it was.
read_continues ==
  /\ polling \in {"battery", "pose"} /\ sender # "poll"
  /\ got' = << >>
  /\ UNCHANGED <<vars, polling, selected, battery_mv, pose_twist, sender, expected, moved>>

\* IOError in any transaction: the rest is given up, the attributes stay.
read_fails ==
  /\ polling \in {"battery", "pose"} /\ sender # "poll"
  /\ polling' = "publish" /\ selected' = FALSE /\ got' = << >>
  /\ UNCHANGED <<vars, battery_mv, pose_twist, sender, expected, moved>>

\* Both messages need their attribute: without it the thread ends with an
\* exception that nobody handles.
publish ==
  /\ polling = "publish"
  /\ polling' = IF battery_mv = Unset \/ pose_twist = Unset THEN "ended" ELSE "battery"
  /\ UNCHANGED <<vars, selected, got, battery_mv, pose_twist, sender, expected, moved>>

\* cmd_vel_callback, in its own thread: a block write, which the bus keeps whole
write_command ==
  /\ \E w \in Commands : Begin(w)
  /\ sender' = "callback" /\ moved' = TRUE
  /\ UNCHANGED <<polling, selected, got, battery_mv, pose_twist, expected>>

command_written ==
  /\ sender = "callback"
  /\ Apply
  /\ sender' = "none"
  /\ UNCHANGED <<polling, selected, got, battery_mv, pose_twist, expected, moved>>

\* The control board's program
control_board ==
  /\ Update \/ (\E w \in UserWrites : Assign(w)) \/ Publish
  /\ UNCHANGED node_vars

NodeNext ==
  \/ write_index \/ index_written \/ read_byte \/ read_done \/ read_fails \/ publish
  \/ write_command \/ command_written
  \/ control_board

NodeSpec == NodeInit /\ [][NodeNext]_all_vars

----------------------------------------------------------------------------
(* Properties *)

\* read_unpack returns the variable it was asked for, as it was when its index
\* was written (romi32U4_driver.py:97): all its bytes, and none of another, whatever
\* the control board's program publishes meanwhile and whichever readings failed
\* before.  Only a command of the other thread, which moves the index, spoils it.
ReadingsAreTheirs ==
  selected /\ ~moved => got = SubSeq(expected, 1, Len(got))
=============================================================================
